---- MODULE Spec2Model ----
(***************************************************************************)
(* A model of the retrieval-augmented generation pipeline of the          *)
(* onboarding wizard backend: the embedding provider and its cache, the   *)
(* in-memory vector store, the RAG service, the corpus loader and the     *)
(* chat session routes.                                                    *)
(*                                                                         *)
(* Every `await` of the code is a point where another request may run;    *)
(* the code between two awaits is one action.  Similarities are carried   *)
(* in thousandths (the exact value truncated), confidences in hundredths. *)
(* Texts are sequences of character codes.                                *)
(***************************************************************************)
EXTENDS Integers, Sequences, FiniteSets, TLC

VARIABLES
    isLoaded,           \* OnboardingDataService.isLoaded
    isLoading,          \* OnboardingDataService.isLoading
    loadingPromise,     \* OnboardingDataService.loadingPromise: 0 is null, else the run it awaits
    onboardingDocuments,\* the corpus the loader hands to initialize
    inits,              \* the runs of RAGServiceImpl.initialize (and of performLoad around them)
    initCalls,          \* how many times initialize was invoked
    isInitialized,      \* RAGServiceImpl.isInitialized
    succeeded,          \* history: some initialize or addDocument completed successfully
    store,              \* InMemoryVectorStore.documents, in insertion order
    embeddingCache,     \* OpenAIServiceImpl.embeddingCache: cache key -> vector
    embeddingModel,     \* the upstream embedding model: text -> vector
    chatSessions,       \* chat.js chatSessions: session id -> session
    ctxSent,            \* history: per session id, the context objects received, in order
    accepted,           \* history: session ids for which a chat message passed validation
    procs,              \* the requests and calls in progress, one record each
    call,               \* the last call made on a part taken alone: its name, arguments and result
    now                 \* the value `new Date()` gives, in milliseconds

vars == <<isLoaded, isLoading, loadingPromise, onboardingDocuments, inits, initCalls,
          isInitialized, succeeded, store, embeddingCache, embeddingModel, chatSessions,
          ctxSent, accepted, procs, call, now>>

(***************************************************************************)
(* Bounds of the model.                                                    *)
(***************************************************************************)
NumProcs == 2
NumClients == 2
MaxInits == 2

Procs == 1..NumProcs
\* The callers of the RAG service when it is called directly.
Clients == 1..NumClients
InitIds == 1..MaxInits

(***************************************************************************)
(* Program constants.                                                      *)
(***************************************************************************)
maxSources == 5
SimilarityThresholdMilli == 300
ChatConfidenceThreshold == 30

OnboardingSectionType ==
    {"PROFILE", "PERSONAL_INFO", "PAYMENT", "TOURS", "CALENDAR", "QUIZ"}

(***************************************************************************)
(* Texts.  A text is a sequence of character codes.                        *)
(***************************************************************************)
Newlines == <<10, 10>>

SectionCode(section) ==
    CASE section = "PROFILE" -> <<80>>
      [] section = "PERSONAL_INFO" -> <<73>>
      [] section = "PAYMENT" -> <<89>>
      [] section = "TOURS" -> <<84>>
      [] section = "CALENDAR" -> <<67>>
      [] section = "QUIZ" -> <<81>>
      [] OTHER -> <<63>>

\* `Context: User is asking about the ${section} section of onboarding.`,
\* abbreviated to a marker, the section's initial and a full stop.
ContextText(section) == <<35>> \o SectionCode(section) \o <<46>>

\* queryText = context ? `${context}\n\n${question}` : question
QueryText(question, section) ==
    IF section = "" THEN question ELSE ContextText(section) \o Newlines \o question

\* `${document.title}\n\n${document.content}`
FullText(doc) == doc.title \o Newlines \o doc.content

(***************************************************************************)
(* OpenAIServiceImpl.createCacheKey: hash = ((hash << 5) - hash) + char,   *)
(* hash = hash & hash, that is 31 * hash + char wrapped to 32 bits.  The   *)
(* hash is kept as two 16-bit halves so that no step leaves 32 bits.       *)
(***************************************************************************)
Half == 65536

HashStep(h, char) ==
    LET lo == 31 * h[2] + char
        hi == 31 * h[1] + (lo \div Half)
    IN  <<hi % Half, lo % Half>>

\* The loop over text[lo..hi] from the hash h, taken half by half so that a
\* long text does not nest a step per character.
RECURSIVE HashFrom(_, _, _, _)
HashFrom(text, lo, hi, h) ==
    IF lo > hi THEN h
    ELSE IF lo = hi THEN HashStep(h, text[lo])
    ELSE LET mid == (lo + hi) \div 2
             first == HashFrom(text, lo, mid, h)
         IN  IF first \in Seq(Nat) THEN HashFrom(text, mid + 1, hi, first) ELSE first

ToInt32(h) ==
    IF h[1] >= Half \div 2 THEN (h[1] - Half) * Half + h[2] ELSE h[1] * Half + h[2]

createCacheKey(text) == ToInt32(HashFrom(text, 1, Len(text), <<0, 0>>))

(***************************************************************************)
(* InMemoryVectorStore.                                                    *)
(***************************************************************************)
RECURSIVE SumTo(_, _)
SumTo(f, n) == IF n = 0 THEN 0 ELSE f[n] + SumTo(f, n - 1)

Dot(a, b) == SumTo([i \in 1..Len(a) |-> a[i] * b[i]], Len(a))

\* The largest k in lo..hi with k * k <= n  (lo * lo <= n is given).
RECURSIVE ISqrt(_, _, _)
ISqrt(n, lo, hi) ==
    IF lo >= hi THEN lo
    ELSE LET mid == (lo + hi + 1) \div 2
         IN  IF mid * mid <= n THEN ISqrt(n, mid, hi) ELSE ISqrt(n, lo, mid - 1)

\* cosineSimilarity of two vectors of the same length, in thousandths,
\* truncated toward zero; 0 when either magnitude is 0.
cosineSimilarity(vectorA, vectorB) ==
    LET dotProduct == Dot(vectorA, vectorB)
        magnitudeA == Dot(vectorA, vectorA)
        magnitudeB == Dot(vectorB, vectorB)
        square == (1000000 * dotProduct * dotProduct) \div (magnitudeA * magnitudeB)
    IN  IF magnitudeA = 0 \/ magnitudeB = 0 THEN 0
        ELSE IF dotProduct >= 0 THEN ISqrt(square, 0, 1000)
        ELSE 0 - ISqrt(square, 0, 1000)

\* The candidates findSimilar scores: for each document in insertion order,
\* the document itself and then each of its chunks.
RECURSIVE Candidates(_, _)
Candidates(documents, i) ==
    IF i > Len(documents) THEN <<>>
    ELSE LET document == documents[i]
         IN  <<[docId |-> document.id, chunk |-> 0, section |-> document.section,
                title |-> document.title, embedding |-> document.embedding]>>
             \o [c \in 1..Len(document.chunks) |->
                    [docId |-> document.id, chunk |-> c, section |-> document.section,
                     title |-> document.title,
                     embedding |-> document.chunks[c].embedding]]
             \o Candidates(documents, i + 1)

\* cosineSimilarity throws when the two vectors differ in length.
DimensionMismatch(documents, queryEmbedding) ==
    \E i \in 1..Len(Candidates(documents, 1)) :
        Len(Candidates(documents, 1)[i].embedding) /= Len(queryEmbedding)

\* Insert r into a sequence sorted by decreasing similarity, after the
\* entries that compare equal (Array.prototype.sort is stable).
RECURSIVE InsertSorted(_, _)
InsertSorted(sorted, r) ==
    IF sorted = <<>> THEN <<r>>
    ELSE IF Head(sorted).similarity >= r.similarity
         THEN <<Head(sorted)>> \o InsertSorted(Tail(sorted), r)
         ELSE <<r>> \o sorted

RECURSIVE SortBySimilarity(_, _)
SortBySimilarity(results, n) ==
    IF n = 0 THEN <<>>
    ELSE InsertSorted(SortBySimilarity(results, n - 1), results[n])

Take(s, n) == SubSeq(s, 1, IF Len(s) < n THEN Len(s) ELSE n)

\* A search that cuts the candidates without sorting them.
findSimilarUnsorted(documents, queryEmbedding, topK) ==
    LET cands == Candidates(documents, 1)
        results == [i \in 1..Len(cands) |->
                       [docId |-> cands[i].docId, chunk |-> cands[i].chunk,
                        section |-> cands[i].section, title |-> cands[i].title,
                        similarity |-> cosineSimilarity(queryEmbedding, cands[i].embedding)]]
    IN  Take(results, topK)

findSimilar(documents, queryEmbedding, topK) ==
    LET cands == Candidates(documents, 1)
        results == [i \in 1..Len(cands) |->
                       [docId |-> cands[i].docId, chunk |-> cands[i].chunk,
                        section |-> cands[i].section, title |-> cands[i].title,
                        similarity |-> cosineSimilarity(queryEmbedding, cands[i].embedding)]]
    IN  Take(SortBySimilarity(results, Len(results)), topK)

RECURSIVE IndexOfId(_, _, _)
IndexOfId(documents, id, i) ==
    IF i > Len(documents) THEN 0
    ELSE IF documents[i].id = id THEN i ELSE IndexOfId(documents, id, i + 1)

\* A store that appends whatever it is given.
StoreAddAppends(documents, document) == Append(documents, document)

\* Map.set: an existing key keeps its place, a new key goes last.
StoreAdd(documents, document) ==
    LET i == IndexOfId(documents, document.id, 1)
    IN  IF i = 0 THEN Append(documents, document)
        ELSE [documents EXCEPT ![i] = document]

RECURSIVE StoreRemove(_, _)
StoreRemove(documents, id) ==
    IF documents = <<>> THEN <<>>
    ELSE IF Head(documents).id = id THEN StoreRemove(Tail(documents), id)
         ELSE <<Head(documents)>> \o StoreRemove(Tail(documents), id)

(***************************************************************************)
(* The embedding provider.  The upstream model is a function of the text;  *)
(* a call of it returns the text's vector or fails, which is the           *)
(* environment's choice at each call.                                      *)
(***************************************************************************)
UpstreamFailure == [ok |-> FALSE, v |-> <<>>]

Upstream(text, ok) ==
    IF ok THEN [ok |-> TRUE, v |-> embeddingModel[text]] ELSE UpstreamFailure

CacheHas(cache, text) == createCacheKey(text) \in DOMAIN cache

CachePut(cache, text, embedding) ==
    [k \in DOMAIN cache \cup {createCacheKey(text)} |->
        IF k = createCacheKey(text) THEN embedding ELSE cache[k]]

\* generateEmbeddings(text) with the upstream outcome `outcome`: a cache hit
\* returns the cached vector and makes no upstream call; a miss calls the
\* upstream model and caches its vector; a failure caches nothing.
generateEmbeddings(cache, text, outcome) ==
    IF CacheHas(cache, text)
    THEN [ok |-> TRUE, embedding |-> cache[createCacheKey(text)], cache |-> cache,
          upstream |-> FALSE]
    ELSE IF outcome.ok
         THEN [ok |-> TRUE, embedding |-> outcome.v,
               cache |-> CachePut(cache, text, outcome.v), upstream |-> TRUE]
         ELSE [ok |-> FALSE, embedding |-> <<>>, cache |-> cache, upstream |-> TRUE]

(***************************************************************************)
(* DocumentProcessorService.                                               *)
(***************************************************************************)
chunkSize == 800
chunkOverlap == 50

\* content.slice(from, to) with 0-based indices, from <= to <= Len(content).
Slice(content, from, to) == SubSeq(content, from + 1, to)

\* String.prototype.lastIndexOf of a character: the 0-based index, or -1.
LastIndexOf(text, char, i) ==
    LET found == {j \in 1..i : text[j] = char}
    IN  IF found = {} THEN 0 - 1
        ELSE (CHOOSE j \in found : \A k \in found : k <= j) - 1

Max(a, b) == IF a >= b THEN a ELSE b
Min(a, b) == IF a <= b THEN a ELSE b

\* The chunk cut out of the window that starts at startIndex.
\* breakPoint > startIndex + chunkSize * 0.5 compares integers with a half,
\* so it is 2 * breakPoint > 2 * startIndex + chunkSize.
ChunkContent(content, startIndex) ==
    LET endIndex == Min(startIndex + chunkSize, Len(content))
        window == Slice(content, startIndex, endIndex)
        lastSentenceEnd == LastIndexOf(window, 46, Len(window))
        lastNewline == LastIndexOf(window, 10, Len(window))
        breakPoint == Max(lastSentenceEnd, lastNewline)
    IN  IF endIndex < Len(content) /\ 2 * breakPoint > 2 * startIndex + chunkSize
        THEN Slice(content, startIndex, startIndex + breakPoint + 1)
        ELSE window

\* A window loop that adds the overlap where it should subtract it.
RECURSIVE ChunkSpansApart(_, _)
ChunkSpansApart(content, startIndex) ==
    IF startIndex >= Len(content) THEN <<>>
    ELSE LET chunkContent == ChunkContent(content, startIndex)
             nextStartIndex == startIndex + Len(chunkContent) + chunkOverlap
         IN  <<[startIndex |-> startIndex, endIndex |-> startIndex + Len(chunkContent),
                content |-> chunkContent]>>
             \o ChunkSpansApart(content, Max(nextStartIndex, startIndex + 1))

\* The spans of the window loop, from startIndex on.
RECURSIVE ChunkSpans(_, _)
ChunkSpans(content, startIndex) ==
    IF startIndex >= Len(content) THEN <<>>
    ELSE LET chunkContent == ChunkContent(content, startIndex)
             nextStartIndex == startIndex + Len(chunkContent) - chunkOverlap
         IN  <<[startIndex |-> startIndex, endIndex |-> startIndex + Len(chunkContent),
                content |-> chunkContent]>>
             \o ChunkSpans(content, Max(nextStartIndex, startIndex + 1))

\* A chunker that returns the chunk of a document that fits one chunk twice.
createDocumentChunksTwice(content) ==
    IF Len(content) <= chunkSize
    THEN <<[startIndex |-> 0, endIndex |-> Len(content), content |-> content],
           [startIndex |-> 0, endIndex |-> Len(content), content |-> content]>>
    ELSE ChunkSpans(content, 0)

\* The spans createDocumentChunks embeds: the whole content of a document
\* that fits one chunk, the window loop's spans of a longer one.
createDocumentChunks(content) ==
    IF Len(content) <= chunkSize
    THEN <<[startIndex |-> 0, endIndex |-> Len(content), content |-> content]>>
    ELSE ChunkSpans(content, 0)

\* A document; isNull marks a null element of the documents array.
Document(id, title, content, section) ==
    [id |-> id, title |-> title, content |-> content, section |-> section,
     isNull |-> FALSE]
NullDocument == [id |-> "", title |-> <<>>, content |-> <<>>, section |-> "",
                 isNull |-> TRUE]

\* String.prototype.trim() === '': nothing but spaces, tabs and line ends.
Blank(text) == \A i \in 1..Len(text) : text[i] \in {32, 9, 10, 13}

maxContentLength == 50000

\* validateDocument(document).isValid
validateDocument(document) ==
    /\ document.id /= ""
    /\ ~Blank(document.title)
    /\ ~Blank(document.content)
    /\ document.section \in OnboardingSectionType
    /\ Len(document.content) <= maxContentLength

\* The embeddings of the spans from the i-th on, each through
\* generateEmbeddings; oks[i] tells whether the upstream call for the i-th
\* span, if one is made, succeeds.
RECURSIVE EmbedSpans(_, _, _, _)
EmbedSpans(cache, spans, oks, i) ==
    IF i > Len(spans) THEN [ok |-> TRUE, embeddings |-> <<>>, cache |-> cache]
    ELSE LET e == generateEmbeddings(cache, spans[i].content,
                                     Upstream(spans[i].content, oks[i]))
             rest == EmbedSpans(e.cache, spans, oks, i + 1)
         IN  [ok |-> e.ok /\ rest.ok, embeddings |-> <<e.embedding>> \o rest.embeddings,
              cache |-> rest.cache]

\* processDocument(document): the embedding of title and content, then the
\* chunks with their embeddings.  ok is FALSE when an embedding call failed.
processDocument(cache, document, docOk, chunkOks) ==
    LET full == generateEmbeddings(cache, FullText(document),
                                   Upstream(FullText(document), docOk))
        spans == createDocumentChunks(document.content)
        parts == EmbedSpans(full.cache, spans, chunkOks, 1)
    IN  IF ~full.ok
        THEN [ok |-> FALSE, cache |-> full.cache, processed |-> <<>>]
        ELSE [ok |-> parts.ok, cache |-> parts.cache,
              processed |->
                  IF parts.ok
                  THEN <<[id |-> document.id, title |-> document.title,
                          content |-> document.content, section |-> document.section,
                          embedding |-> full.embedding,
                          chunks |-> [c \in 1..Len(spans) |->
                                        [startIndex |-> spans[c].startIndex,
                                         endIndex |-> spans[c].endIndex,
                                         embedding |-> parts.embeddings[c]]]]>>
                  ELSE <<>>]

(***************************************************************************)
(* RAGServiceImpl: the pure parts of query.                                *)
(***************************************************************************)
createDocumentSource(result) ==
    [docId |-> result.docId, chunk |-> result.chunk, title |-> result.title,
     section |-> result.section, relevanceScore |-> result.similarity]

\* A filter that keeps every candidate.
IsRelevantAlways(result) == result.similarity >= 0

\* The filter of query: similarity >= this.similarityThreshold
IsRelevant(result) == result.similarity >= SimilarityThresholdMilli

\* A query that keeps every relevant result.
relevantSourcesUncut(similarResults) ==
    LET kept == SelectSeq(similarResults, IsRelevant)
    IN  [i \in 1..Len(kept) |-> createDocumentSource(kept[i])]

\* similarResults.filter(similarity >= threshold).slice(0, maxSources).map(...)
relevantSources(similarResults) ==
    LET kept == Take(SelectSeq(similarResults, IsRelevant), maxSources)
    IN  [i \in 1..Len(kept) |-> createDocumentSource(kept[i])]

\* calculateConfidence, in hundredths.  The weights 1 / (index + 1) are
\* taken times 60; the weighted average times 1.2, clamped to 1, times 1.1
\* for three sources or more, clamped again, is the fraction num / den of a
\* thousandth; Math.round(confidence * 100) rounds the half up.
calculateConfidence(sources) ==
    LET weight(i) == 60 \div i
        weightedSum == SumTo([i \in 1..Len(sources) |->
                                sources[i].relevanceScore * weight(i)], Len(sources))
        totalWeight == SumTo([i \in 1..Len(sources) |-> weight(i)], Len(sources))
        num1 == weightedSum * 12
        den1 == totalWeight * 10
        clamped1 == num1 >= 1000 * den1
        num2 == IF clamped1 THEN 1000 ELSE num1
        den2 == IF clamped1 THEN 1 ELSE den1
        boosted == Len(sources) >= 3
        num3 == IF boosted THEN num2 * 11 ELSE num2
        den3 == IF boosted THEN den2 * 10 ELSE den2
        clamped3 == num3 >= 1000 * den3
        num == IF clamped3 THEN 1000 ELSE num3
        den == IF clamped3 THEN 1 ELSE den3
    IN  IF Len(sources) = 0 THEN 0
        ELSE (2 * num + 10 * den) \div (20 * den)

\* Answers and chat replies: what kind of text it is and the text it is made from.
NoAnswer == [kind |-> "none", text |-> <<>>]
NotEnoughInformation == [kind |-> "noinfo", text |-> <<>>]
TroubleGenerating == [kind |-> "trouble", text |-> <<>>]
Generated(raw) == [kind |-> "ai", text |-> raw]
generateFallbackResponse(message) == [kind |-> "fallback", text |-> message]

NoResponse == [answer |-> NoAnswer, sources |-> <<>>, confidence |-> 0]

(***************************************************************************)
(* Requests and calls in progress.  pc is the await a call is suspended    *)
(* at; the other fields are its arguments, its locals and what it          *)
(* returned.                                                               *)
(***************************************************************************)
NoSessionId == <<"none", 0>>
ClientSessionId == <<"client", 1>>
\* generateSessionId: a fresh id for the request
generateSessionId(p) == <<"chat", p>>

\* A context object: its section and one free-form field, "" for a field
\* that is not there.
EmptyContext == [section |-> "", step |-> ""]

IdleProc ==
    [op |-> "none", pc |-> "idle", stage |-> "", await |-> 0, owner |-> FALSE,
     lres |-> "", result |-> "", sawLoaded |-> FALSE,
     question |-> <<>>, section |-> "", entryReady |-> FALSE,
     hit |-> FALSE, embedding |-> <<>>, similar |-> <<>>, sources |-> <<>>,
     qstatus |-> "", response |-> NoResponse,
     embedCalls |-> 0, simCalls |-> 0, genCalls |-> 0, chatGen |-> FALSE,
     sid |-> NoSessionId, status |-> 0, reply |-> NoAnswer, replySources |-> <<>>,
     respCtx |-> EmptyContext, respAt |-> 0, seenMessages |-> <<>>,
     document |-> NullDocument, hasContext |-> FALSE, context |-> EmptyContext,
     alone |-> FALSE]

FreeInit ==
    [st |-> "free", viaLoader |-> FALSE, docs |-> <<>>, idx |-> 0, processed |-> <<>>,
     outcomes |-> <<>>, aidx |-> 0, prom |-> "none", wasReady |-> FALSE]

envVars == <<onboardingDocuments, embeddingModel, now>>
NoCall == [fn |-> "none"]
loaderVars == <<isLoaded, isLoading, loadingPromise>>
chatVars == <<chatSessions, ctxSent, accepted>>

(***************************************************************************)
(* RAGServiceImpl.initialize, one run of it.                               *)
(***************************************************************************)
\* The call: up to `await vectorStore().clear()`, whose body has cleared
\* the store when the call returns its promise.
InitializeCall(k, documents, viaLoader) ==
    /\ k = initCalls + 1
    /\ k \in InitIds
    /\ initCalls' = k
    /\ store' = <<>>
    /\ inits' = [inits EXCEPT ![k] =
                    [st |-> "clearing", viaLoader |-> viaLoader, docs |-> documents,
                     idx |-> 1, processed |-> <<>>, outcomes |-> <<>>, aidx |-> 1,
                     prom |-> IF viaLoader THEN "pending" ELSE "none",
                     wasReady |-> isInitialized]]

\* After the clear: processDocuments is called.
InitializeCleared(k) ==
    /\ inits[k].st = "clearing"
    /\ inits' = [inits EXCEPT ![k].st = "processing"]
    /\ UNCHANGED <<loaderVars, envVars, call, initCalls, isInitialized, succeeded,
                   store, embeddingCache, chatVars, procs>>

\* processDocuments that gives up at the first document that fails.
ProcessOneDocumentStopsAtFailure(k) ==
    /\ inits[k].st = "processing"
    /\ inits[k].idx <= Len(inits[k].docs)
    /\ LET document == inits[k].docs[inits[k].idx]
       IN  IF document.isNull
           THEN /\ inits' = [inits EXCEPT ![k].st = "failed"]
                /\ UNCHANGED embeddingCache
           ELSE \E docOk \in BOOLEAN,
                   chunkOks \in [1..Len(createDocumentChunks(document.content))
                                    -> BOOLEAN] :
                   LET r == processDocument(embeddingCache, document, docOk, chunkOks)
                   IN  /\ embeddingCache' = r.cache
                       /\ inits' = [inits EXCEPT
                                       ![k].st = IF r.ok THEN @ ELSE "failed",
                                       ![k].idx = @ + 1,
                                       ![k].processed = @ \o r.processed,
                                       ![k].outcomes = Append(@, r.ok)]
    /\ UNCHANGED <<loaderVars, envVars, call, initCalls, isInitialized, succeeded,
                   store, chatVars, procs>>

\* processDocuments, one document of the list: a document whose processing
\* fails is left out; a null element makes processDocuments itself reject,
\* which initialize catches and wraps.
ProcessOneDocument(k) ==
    /\ inits[k].st = "processing"
    /\ inits[k].idx <= Len(inits[k].docs)
    /\ LET document == inits[k].docs[inits[k].idx]
       IN  IF document.isNull
           THEN /\ inits' = [inits EXCEPT ![k].st = "failed"]
                /\ UNCHANGED embeddingCache
           ELSE \E docOk \in BOOLEAN,
                   chunkOks \in [1..Len(createDocumentChunks(document.content))
                                    -> BOOLEAN] :
                   LET r == processDocument(embeddingCache, document, docOk, chunkOks)
                   IN  /\ embeddingCache' = r.cache
                       /\ inits' = [inits EXCEPT
                                       ![k].idx = @ + 1,
                                       ![k].processed = @ \o r.processed,
                                       ![k].outcomes = Append(@, r.ok)]
    /\ UNCHANGED <<loaderVars, envVars, call, initCalls, isInitialized, succeeded,
                   store, chatVars, procs>>

\* processDocuments has returned: the loop over the processed documents.
ProcessDocumentsDone(k) ==
    /\ inits[k].st = "processing"
    /\ inits[k].idx > Len(inits[k].docs)
    /\ inits' = [inits EXCEPT ![k].st = "adding"]
    /\ UNCHANGED <<loaderVars, envVars, call, initCalls, isInitialized, succeeded,
                   store, embeddingCache, chatVars, procs>>

\* `await vectorStore().addDocument(processedDoc)` for the next document.
InitializeAddDocument(k) ==
    /\ inits[k].st = "adding"
    /\ inits[k].aidx <= Len(inits[k].processed)
    /\ store' = StoreAdd(store, inits[k].processed[inits[k].aidx])
    /\ inits' = [inits EXCEPT ![k].aidx = @ + 1]
    /\ UNCHANGED <<loaderVars, envVars, call, initCalls, isInitialized, succeeded,
                   embeddingCache, chatVars, procs>>

\* What initialize leaves in isInitialized when it ends.
InitializedAfter(ok, before) == IF ok THEN TRUE ELSE before

\* The loop is over: this.isInitialized = true.
InitializeSucceeds(k) ==
    /\ inits[k].st = "adding"
    /\ inits[k].aidx > Len(inits[k].processed)
    /\ isInitialized' = InitializedAfter(TRUE, isInitialized)
    /\ succeeded' = TRUE
    /\ inits' = [inits EXCEPT ![k].st = "ok"]
    /\ UNCHANGED <<loaderVars, envVars, call, initCalls, store, embeddingCache,
                   chatVars, procs>>

\* The catch block: the wrapped error is thrown.
InitializeFails(k) ==
    /\ inits[k].st = "failed"
    /\ inits' = [inits EXCEPT ![k].st = "thrown"]
    /\ isInitialized' = InitializedAfter(FALSE, isInitialized)
    /\ UNCHANGED <<loaderVars, envVars, call, initCalls, succeeded, store,
                   embeddingCache, chatVars, procs>>

(***************************************************************************)
(* OnboardingDataService.                                                  *)
(***************************************************************************)
\* performLoad after `await ragService().initialize(...)`: isLoaded is set
\* and the promise settles.
PerformLoadSettles(k) ==
    /\ inits[k].viaLoader
    /\ inits[k].prom = "pending"
    /\ inits[k].st \in {"ok", "thrown"}
    /\ isLoaded' = (inits[k].st = "ok")
    /\ inits' = [inits EXCEPT ![k].prom = IF inits[k].st = "ok" THEN "resolved"
                                          ELSE "rejected"]
    /\ UNCHANGED <<isLoading, loadingPromise, envVars, call, initCalls,
                   isInitialized, succeeded, store, embeddingCache, chatVars, procs>>

\* A loader that never joins the load in flight.
LoadBranchNeverJoins(loaded, loading, promise) ==
    IF loaded THEN "loaded" ELSE "start"

\* The three ways through loadOnboardingDocumentation.
LoadBranch(loaded, loading, promise) ==
    IF loaded THEN "loaded"
    ELSE IF loading /\ promise /= 0 THEN "join"
    ELSE "start"

\* loadOnboardingDocumentation called by p, whose record is pr, with the
\* flags as they are at the call.  Sets everything but isLoaded.
loadOnboardingDocumentation(p, pr, loaded, loading, promise) ==
    LET branch == LoadBranch(loaded, loading, promise)
    IN  CASE branch = "loaded" ->
               /\ procs' = [procs EXCEPT ![p] = [pr EXCEPT !.pc = "load_ret",
                                                            !.lres = "ok"]]
               /\ isLoading' = loading
               /\ loadingPromise' = promise
               /\ UNCHANGED <<inits, store, initCalls>>
          [] branch = "join" ->
               /\ procs' = [procs EXCEPT ![p] = [pr EXCEPT !.pc = "load_wait",
                                                            !.await = promise,
                                                            !.owner = FALSE]]
               /\ isLoading' = loading
               /\ loadingPromise' = promise
               /\ UNCHANGED <<inits, store, initCalls>>
          [] branch = "start" ->
               /\ InitializeCall(initCalls + 1, onboardingDocuments, TRUE)
               /\ isLoading' = TRUE
               /\ loadingPromise' = initCalls + 1
               /\ procs' = [procs EXCEPT ![p] = [pr EXCEPT !.pc = "load_wait",
                                                            !.await = initCalls + 1,
                                                            !.owner = TRUE]]

\* A caller whose finally block leaves the flag and the promise in place.
LoadSettledKeepsPromise(p) ==
    /\ procs[p].pc = "load_wait"
    /\ inits[procs[p].await].prom \in {"resolved", "rejected"}
    /\ procs' = [procs EXCEPT ![p].pc = "load_ret",
                              ![p].lres = IF inits[procs[p].await].prom = "resolved"
                                          THEN "ok" ELSE "err"]
    /\ UNCHANGED <<loaderVars, envVars, call, inits, initCalls, isInitialized,
                   succeeded, store, embeddingCache, chatVars>>

\* The awaited load has settled; the caller that started it runs its
\* finally block.
LoadSettled(p) ==
    /\ procs[p].pc = "load_wait"
    /\ inits[procs[p].await].prom \in {"resolved", "rejected"}
    /\ procs' = [procs EXCEPT ![p].pc = "load_ret",
                              ![p].lres = IF inits[procs[p].await].prom = "resolved"
                                          THEN "ok" ELSE "err"]
    /\ IF procs[p].owner
       THEN isLoading' = FALSE /\ loadingPromise' = 0
       ELSE UNCHANGED <<isLoading, loadingPromise>>
    /\ UNCHANGED <<isLoaded, envVars, call, inits, initCalls, isInitialized,
                   succeeded, store, embeddingCache, chatVars>>

LoadCall(p) ==
    /\ procs[p].pc = "idle"
    /\ loadOnboardingDocumentation(p, [IdleProc EXCEPT !.op = "load"],
                                   isLoaded, isLoading, loadingPromise)
    /\ UNCHANGED <<isLoaded, envVars, call, isInitialized, succeeded,
                   embeddingCache, chatVars>>

\* reloadDocumentation: the flags are reset, then the load is called.
ReloadCall(p) ==
    /\ procs[p].pc = "idle"
    /\ isLoaded' = FALSE
    /\ loadOnboardingDocumentation(p, [IdleProc EXCEPT !.op = "reload"], FALSE, FALSE, 0)
    /\ UNCHANGED <<envVars, call, isInitialized, succeeded, embeddingCache,
                   chatVars>>

\* loadOnboardingDocumentation or reloadDocumentation returns to its caller.
LoadReturn(p) ==
    /\ procs[p].pc = "load_ret"
    /\ procs[p].op \in {"load", "reload"}
    /\ procs' = [procs EXCEPT ![p].pc = "done", ![p].result = procs[p].lres,
                              ![p].sawLoaded = isLoaded]
    /\ UNCHANGED <<loaderVars, envVars, call, inits, initCalls, isInitialized,
                   succeeded, store, embeddingCache, chatVars>>

(***************************************************************************)
(* RAGServiceImpl.query.                                                   *)
(***************************************************************************)
\* A query without its guard.
NotInitializedNever(initialized) == FALSE

\* The guard at the head of query.
NotInitialized(initialized) == ~initialized

\* query up to its first await: the guard, then the call of
\* generateEmbeddings, which looks into the cache before it suspends.
QueryEntry(pr) ==
    IF NotInitialized(isInitialized)
    THEN [pr EXCEPT !.pc = "query_ret", !.qstatus = "notinit", !.entryReady = succeeded]
    ELSE LET text == QueryText(pr.question, pr.section)
         IN  [pr EXCEPT !.pc = "query_embed", !.entryReady = succeeded,
                        !.embedCalls = @ + 1,
                        !.hit = CacheHas(embeddingCache, text),
                        !.embedding = IF CacheHas(embeddingCache, text)
                                      THEN embeddingCache[createCacheKey(text)]
                                      ELSE <<>>]

\* After the embedding: findSimilar, the filter, and either the fixed
\* answer or the call of the generation model.
QueryAfterEmbedding(pr, queryEmbedding) ==
    IF DimensionMismatch(store, queryEmbedding)
    THEN [pr EXCEPT !.pc = "query_ret", !.qstatus = "failed", !.simCalls = @ + 1,
                    !.embedding = queryEmbedding]
    ELSE LET similarResults == findSimilar(store, queryEmbedding, maxSources * 2)
             sources == relevantSources(similarResults)
         IN  IF Len(sources) = 0
             THEN [pr EXCEPT !.pc = "query_ret", !.qstatus = "ok",
                             !.simCalls = @ + 1, !.embedding = queryEmbedding,
                             !.similar = similarResults, !.sources = sources,
                             !.response = [answer |-> NotEnoughInformation,
                                           sources |-> <<>>, confidence |-> 0]]
             ELSE [pr EXCEPT !.pc = "query_gen", !.simCalls = @ + 1,
                             !.embedding = queryEmbedding,
                             !.similar = similarResults, !.sources = sources,
                             !.genCalls = @ + 1]

\* generateEmbeddings returns to query.
QueryEmbedded(p) ==
    /\ procs[p].pc = "query_embed"
    /\ IF procs[p].hit
       THEN /\ procs' = [procs EXCEPT ![p] = QueryAfterEmbedding(procs[p],
                                                                  procs[p].embedding)]
            /\ UNCHANGED embeddingCache
       ELSE \E ok \in BOOLEAN :
               LET text == QueryText(procs[p].question, procs[p].section)
                   e == generateEmbeddings(<<>>, text, Upstream(text, ok))
               IN  IF e.ok
                   THEN /\ embeddingCache' = CachePut(embeddingCache, text, e.embedding)
                        /\ procs' = [procs EXCEPT ![p] =
                                        QueryAfterEmbedding(procs[p], e.embedding)]
                   ELSE /\ procs' = [procs EXCEPT ![p].pc = "query_ret",
                                                  ![p].qstatus = "failed"]
                        /\ UNCHANGED embeddingCache
    /\ UNCHANGED <<loaderVars, envVars, call, inits, initCalls, isInitialized,
                   succeeded, store, chatVars>>

RawOutputs == {<<111, 107>>}

\* A query that reports confidence 0 when the generation model failed.
QueryGeneratedTroubleIsZero(p) ==
    /\ procs[p].pc = "query_gen"
    /\ \E answer \in {Generated(raw) : raw \in RawOutputs} \cup {TroubleGenerating} :
           procs' = [procs EXCEPT
                        ![p].pc = "query_ret",
                        ![p].qstatus = "ok",
                        ![p].response =
                            [answer |-> answer, sources |-> procs[p].sources,
                             confidence |-> IF answer = TroubleGenerating THEN 0
                                            ELSE calculateConfidence(procs[p].sources)]]
    /\ UNCHANGED <<loaderVars, envVars, call, inits, initCalls, isInitialized,
                   succeeded, store, embeddingCache, chatVars>>

\* The generation model returns to generateContextualAnswer, or fails
\* there, which yields the fixed trouble text; then the confidence.
QueryGenerated(p) ==
    /\ procs[p].pc = "query_gen"
    /\ \E answer \in {Generated(raw) : raw \in RawOutputs} \cup {TroubleGenerating} :
           procs' = [procs EXCEPT
                        ![p].pc = "query_ret",
                        ![p].qstatus = "ok",
                        ![p].response =
                            [answer |-> answer, sources |-> procs[p].sources,
                             confidence |-> calculateConfidence(procs[p].sources)]]
    /\ UNCHANGED <<loaderVars, envVars, call, inits, initCalls, isInitialized,
                   succeeded, store, embeddingCache, chatVars>>

Questions == {<<104>>}
QuerySections == {"", "PROFILE"}

\* ragService().query(question) called directly.
RagQueryCall(p) ==
    /\ procs[p].pc = "idle"
    /\ \E question \in Questions :
           procs' = [procs EXCEPT ![p] = QueryEntry([IdleProc EXCEPT
                                                        !.op = "query",
                                                        !.question = question])]
    /\ UNCHANGED <<loaderVars, envVars, call, inits, initCalls, isInitialized,
                   succeeded, store, embeddingCache, chatVars>>

\* queryWithContext from its head: the lazy load, or the query at once.
queryWithContext(p, pr) ==
    IF ~isLoaded
    THEN loadOnboardingDocumentation(p, [pr EXCEPT !.stage = "qwcload"],
                                     isLoaded, isLoading, loadingPromise)
    ELSE /\ procs' = [procs EXCEPT ![p] = QueryEntry(pr)]
         /\ UNCHANGED <<isLoading, loadingPromise, inits, store, initCalls>>

QueryWithContextCall(p) ==
    /\ procs[p].pc = "idle"
    /\ \E question \in Questions, section \in QuerySections :
           queryWithContext(p, [IdleProc EXCEPT !.op = "qwc", !.question = question,
                                                !.section = section])
    /\ UNCHANGED <<isLoaded, envVars, call, isInitialized, succeeded,
                   embeddingCache, chatVars>>

\* queryWithContext after its `await this.loadOnboardingDocumentation()`.
QueryWithContextLoaded(p) ==
    /\ procs[p].pc = "load_ret"
    /\ procs[p].stage = "qwcload"
    /\ procs' = [procs EXCEPT ![p] =
                    IF procs[p].lres = "ok" THEN QueryEntry(procs[p])
                    ELSE [procs[p] EXCEPT !.pc = "query_ret", !.qstatus = "loadfail"]]
    /\ UNCHANGED <<loaderVars, envVars, call, inits, initCalls, isInitialized,
                   succeeded, store, embeddingCache, chatVars>>

\* query or queryWithContext returns to a caller that is not a route.
QueryReturn(p) ==
    /\ procs[p].pc = "query_ret"
    /\ procs[p].op \in {"query", "qwc"}
    /\ procs' = [procs EXCEPT ![p].pc = "done", ![p].result = procs[p].qstatus]
    /\ UNCHANGED <<loaderVars, envVars, call, inits, initCalls, isInitialized,
                   succeeded, store, embeddingCache, chatVars>>

(***************************************************************************)
(* RAGServiceImpl.addDocument, removeDocument, updateDocuments.            *)
(***************************************************************************)
AddDocumentCall(p, document) ==
    /\ procs[p].pc = "idle"
    /\ procs' = [procs EXCEPT ![p] = [IdleProc EXCEPT !.op = "add", !.pc = "add_process",
                                                      !.document = document]]
    /\ UNCHANGED <<loaderVars, envVars, call, inits, initCalls, isInitialized,
                   succeeded, store, embeddingCache, chatVars>>

\* processDocument has returned, and the document goes into the store, or
\* it has thrown, and addDocument throws the wrapped error.
AddDocumentProcessed(p) ==
    /\ procs[p].pc = "add_process"
    /\ LET document == procs[p].document
       IN  IF document.isNull
           THEN /\ procs' = [procs EXCEPT ![p].pc = "done", ![p].result = "err"]
                /\ UNCHANGED <<store, embeddingCache>>
           ELSE \E docOk \in BOOLEAN,
                   chunkOks \in [1..Len(createDocumentChunks(document.content))
                                    -> BOOLEAN] :
                   LET r == processDocument(embeddingCache, document, docOk, chunkOks)
                   IN  /\ embeddingCache' = r.cache
                       /\ store' = IF r.ok THEN StoreAdd(store, r.processed[1])
                                   ELSE store
                       /\ procs' = [procs EXCEPT
                                       ![p].pc = IF r.ok THEN "add_stored" ELSE "done",
                                       ![p].result = IF r.ok THEN "" ELSE "err"]
    /\ UNCHANGED <<loaderVars, envVars, call, inits, initCalls, isInitialized,
                   succeeded, chatVars>>

\* An addDocument that returns without marking the service ready.
AddDocumentStoredNotReady(p) ==
    /\ procs[p].pc = "add_stored"
    /\ procs' = [procs EXCEPT ![p].pc = "done", ![p].result = "ok"]
    /\ UNCHANGED <<loaderVars, envVars, call, inits, initCalls, isInitialized,
                   succeeded, store, embeddingCache, chatVars>>

\* After `await vectorStore().addDocument(...)`: the service is ready.
AddDocumentStored(p) ==
    /\ procs[p].pc = "add_stored"
    /\ isInitialized' = TRUE
    /\ succeeded' = TRUE
    /\ procs' = [procs EXCEPT ![p].pc = "done", ![p].result = "ok"]
    /\ UNCHANGED <<loaderVars, envVars, call, inits, initCalls, store,
                   embeddingCache, chatVars>>

RemoveDocumentCall(p, documentId) ==
    /\ procs[p].pc = "idle"
    /\ store' = StoreRemove(store, documentId)
    /\ procs' = [procs EXCEPT ![p] = [IdleProc EXCEPT !.op = "remove", !.pc = "done",
                                                      !.result = "ok"]]
    /\ UNCHANGED <<loaderVars, envVars, call, inits, initCalls, isInitialized,
                   succeeded, embeddingCache, chatVars>>

\* updateDocuments(documents) is initialize(documents).
UpdateDocumentsCall(documents) ==
    /\ InitializeCall(initCalls + 1, documents, FALSE)
    /\ UNCHANGED <<loaderVars, envVars, call, isInitialized, succeeded,
                   embeddingCache, chatVars, procs>>

(***************************************************************************)
(* The chat routes.                                                        *)
(***************************************************************************)
\* A session whose context is replaced by the request's.
MergeContextReplaces(stored, context) == context

\* session.context = { ...session.context, ...context }
MergeContext(stored, context) ==
    [section |-> IF context.section /= "" THEN context.section ELSE stored.section,
     step |-> IF context.step /= "" THEN context.step ELSE stored.step]

UserMessage(p, message) ==
    [id |-> <<p, 1>>, sender |-> "user", content |-> [kind |-> "user", text |-> message],
     sources |-> <<>>, timestamp |-> now]

AssistantMessage(p, aiResponse, sources) ==
    [id |-> <<p, 2>>, sender |-> "assistant", content |-> aiResponse,
     sources |-> sources, timestamp |-> now]

SessionPut(sessions, sessionId, session) ==
    [s \in DOMAIN sessions \cup {sessionId} |->
        IF s = sessionId THEN session ELSE sessions[s]]

\* validateChatMessage: a message of 1 to 2000 characters and, when there
\* is a context with a section, a section of the enum.
ValidChatRequest(message, context) ==
    /\ Len(message) >= 1
    /\ Len(message) <= 2000
    /\ context.section = "" \/ context.section \in OnboardingSectionType

\* A route that calls the generation model whatever the sources are.
HasRelevantDocumentationAlways(pr) == pr.qstatus = "ok"

\* hasRelevantDocumentation = sources.length > 0 && ragResponse.confidence > 0.3
HasRelevantDocumentation(pr) ==
    /\ pr.qstatus = "ok"
    /\ Len(pr.response.sources) > 0
    /\ pr.response.confidence > ChatConfidenceThreshold

\* A route that lets the failure of queryWithContext escape.
RagFailureEscapes(pr) == FALSE

\* catch (error) { req.log.warn(...) }: every failure of queryWithContext
\* is caught and the turn goes on.
RagFailureCaught(pr) == TRUE

\* The sources the route holds after the try around queryWithContext.
RouteSources(pr) == IF pr.qstatus = "ok" THEN pr.response.sources ELSE <<>>

ChatMessages == {<<>>, <<104>>}
ChatContexts ==
    {[section |-> "", step |-> ""], [section |-> "PROFILE", step |-> ""],
     [section |-> "TOURS", step |-> ""], [section |-> "", step |-> "one"],
     [section |-> "BOGUS", step |-> ""]}

\* POST /api/chat up to its first await: validation, the session looked up
\* or created, the context merged, the user message appended, and the load
\* or the query started.
ChatCall(p) ==
    /\ procs[p].pc = "idle"
    /\ \E message \in ChatMessages, sessionId \in {NoSessionId, ClientSessionId},
          hasContext \in BOOLEAN, context \in ChatContexts :
        /\ hasContext \/ context = EmptyContext
        /\ IF ~ValidChatRequest(message, context)
           THEN /\ procs' = [procs EXCEPT ![p] = [IdleProc EXCEPT !.op = "chat",
                                                                  !.pc = "done",
                                                                  !.status = 400]]
                /\ UNCHANGED <<isLoading, loadingPromise, inits, store, initCalls,
                               chatVars>>
           ELSE LET actualSessionId == IF sessionId = NoSessionId
                                       THEN generateSessionId(p) ELSE sessionId
                    found == IF actualSessionId \in DOMAIN chatSessions
                             THEN chatSessions[actualSessionId]
                             ELSE [messages |-> <<>>,
                                   context |-> IF hasContext THEN context
                                               ELSE EmptyContext]
                    merged == IF hasContext
                              THEN [found EXCEPT !.context = MergeContext(@, context)]
                              ELSE found
                    session == [merged EXCEPT
                                   !.messages = Append(@, UserMessage(p, message))]
                    pr == [IdleProc EXCEPT !.op = "chat", !.sid = actualSessionId,
                                           !.hasContext = hasContext,
                                           !.context = context,
                                           !.question = message,
                                           !.section = session.context.section,
                                           !.alone =
                                               \A q \in Procs \ {p} :
                                                   procs[q].pc \in {"idle", "done"}]
                IN  /\ chatSessions' = SessionPut(chatSessions, actualSessionId, session)
                    /\ ctxSent' = IF hasContext
                                  THEN [ctxSent EXCEPT ![actualSessionId] =
                                           Append(@, context)]
                                  ELSE ctxSent
                    /\ accepted' = accepted \cup {actualSessionId}
                    /\ IF ~isLoaded
                       THEN loadOnboardingDocumentation(
                                p, [pr EXCEPT !.stage = "chatload"],
                                isLoaded, isLoading, loadingPromise)
                       ELSE queryWithContext(p, pr)
    /\ UNCHANGED <<isLoaded, envVars, call, isInitialized, succeeded,
                   embeddingCache>>

\* After `await dataService.loadOnboardingDocumentation()`: a failed load
\* ends the request with 500, else queryWithContext is called with the
\* section the session holds now.
ChatLoaded(p) ==
    /\ procs[p].pc = "load_ret"
    /\ procs[p].stage = "chatload"
    /\ IF procs[p].lres = "ok"
       THEN queryWithContext(p, [procs[p] EXCEPT
                                    !.section = chatSessions[procs[p].sid].context.section])
       ELSE /\ procs' = [procs EXCEPT ![p].pc = "done", ![p].status = 500]
            /\ UNCHANGED <<isLoading, loadingPromise, inits, store, initCalls>>
    /\ UNCHANGED <<isLoaded, envVars, call, isInitialized, succeeded,
                   embeddingCache, chatVars>>

\* The assistant message is appended and the response is sent.
Respond(p, pr, aiResponse) ==
    LET session == chatSessions[pr.sid]
        sources == RouteSources(pr)
    IN  /\ chatSessions' =
               [chatSessions EXCEPT ![pr.sid].messages =
                   Append(@, AssistantMessage(p, aiResponse, sources))]
        /\ procs' = [procs EXCEPT ![p] = [pr EXCEPT !.pc = "done", !.status = 200,
                                                    !.reply = aiResponse,
                                                    !.replySources = sources,
                                                    !.respCtx = session.context,
                                                    !.respAt = Len(ctxSent[pr.sid])]]

\* After the try around queryWithContext: the generation model is called
\* when there is relevant documentation, else the fallback is the reply.
ChatAfterRag(p) ==
    /\ procs[p].pc = "query_ret"
    /\ procs[p].op = "chat"
    /\ IF procs[p].qstatus /= "ok" /\ ~RagFailureCaught(procs[p])
       THEN /\ procs' = [procs EXCEPT ![p].pc = "done", ![p].status = 500]
            /\ UNCHANGED chatSessions
       ELSE IF HasRelevantDocumentation(procs[p])
       THEN /\ procs' = [procs EXCEPT ![p].pc = "chat_gen", ![p].genCalls = @ + 1,
                                      ![p].chatGen = TRUE]
            /\ UNCHANGED chatSessions
       ELSE Respond(p, procs[p], generateFallbackResponse(procs[p].question))
    /\ UNCHANGED <<loaderVars, envVars, call, inits, initCalls, isInitialized,
                   succeeded, store, embeddingCache, ctxSent, accepted>>

\* The generation model returns to the route, or fails, which ends the
\* request with 500.
ChatGenerated(p) ==
    /\ procs[p].pc = "chat_gen"
    /\ \/ \E raw \in RawOutputs : Respond(p, procs[p], Generated(raw))
       \/ /\ procs' = [procs EXCEPT ![p].pc = "done", ![p].status = 500]
          /\ UNCHANGED chatSessions
    /\ UNCHANGED <<loaderVars, envVars, call, inits, initCalls, isInitialized,
                   succeeded, store, embeddingCache, ctxSent, accepted>>

\* A history route that creates the session it does not find.
HistoryCallCreates(p, sessionId) ==
    /\ procs[p].pc = "idle"
    /\ chatSessions' =
           IF sessionId \in DOMAIN chatSessions THEN chatSessions
           ELSE SessionPut(chatSessions, sessionId,
                           [messages |-> <<>>, context |-> EmptyContext])
    /\ procs' = [procs EXCEPT ![p] =
                    [IdleProc EXCEPT !.op = "history", !.pc = "done",
                                     !.sid = sessionId, !.status = 200,
                                     !.seenMessages =
                                         IF sessionId \in DOMAIN chatSessions
                                         THEN chatSessions[sessionId].messages
                                         ELSE <<>>]]
    /\ UNCHANGED <<loaderVars, envVars, call, inits, initCalls, isInitialized,
                   succeeded, store, embeddingCache, ctxSent, accepted>>

\* GET /api/chat/:sessionId/history
HistoryCall(p, sessionId) ==
    /\ procs[p].pc = "idle"
    /\ procs' = [procs EXCEPT ![p] =
                    IF sessionId \in DOMAIN chatSessions
                    THEN [IdleProc EXCEPT !.op = "history", !.pc = "done",
                                          !.sid = sessionId, !.status = 200,
                                          !.seenMessages = chatSessions[sessionId].messages,
                                          !.respCtx = chatSessions[sessionId].context]
                    ELSE [IdleProc EXCEPT !.op = "history", !.pc = "done",
                                          !.sid = sessionId, !.status = 404]]
    /\ UNCHANGED <<loaderVars, envVars, call, inits, initCalls, isInitialized,
                   succeeded, store, embeddingCache, chatVars>>

(***************************************************************************)
(* The initial state and the specifications.                               *)
(***************************************************************************)
Doc1 == Document("d1", <<65>>, <<97>>, "PROFILE")
Doc2 == Document("d2", <<66>>, <<98>>, "TOURS")
\* Documents that validateDocument refuses: an unknown section, a blank title.
DocUnknownSection == Document("d3", <<67>>, <<99>>, "BOGUS")
DocBlankTitle == Document("d4", <<32>>, <<100>>, "PROFILE")

\* The corpora the loader is run on: a well-formed one, and one with a
\* null entry, on which processDocuments rejects.
Corpora == {<<Doc1>>, <<Doc1, NullDocument>>}

\* The document lists updateDocuments is called with.
DocumentLists == {<<Doc1>>, <<Doc2, NullDocument>>}

SessionIds == {ClientSessionId} \cup {generateSessionId(p) : p \in Procs}

\* The texts that are embedded.
DocumentTexts ==
    UNION {{FullText(d), d.content} : d \in {Doc1, Doc2, DocUnknownSection, DocBlankTitle}}
QueryTexts ==
    {QueryText(q, sec) : q \in Questions, sec \in {"", "PROFILE", "TOURS"}}

\* The upstream models the runs are made with: one that sends every text
\* to the same vector, one that sends documents and questions to orthogonal
\* vectors, and one under which a question is just similar enough to a
\* document's full text (0.316) and not at all to its chunk.
EmbeddingModels ==
    {[t \in DocumentTexts \cup QueryTexts |-> <<1, 0>>],
     [t \in DocumentTexts \cup QueryTexts |->
         IF t \in QueryTexts THEN <<0, 1>> ELSE <<1, 0>>],
     [t \in DocumentTexts \cup QueryTexts |->
         IF t \in QueryTexts THEN <<0, 1>>
         ELSE IF Len(t) > 1 THEN <<3, 1>> ELSE <<1, 0>>]}

InitWith(corpora) ==
    /\ isLoaded = FALSE
    /\ isLoading = FALSE
    /\ loadingPromise = 0
    /\ onboardingDocuments \in corpora
    /\ inits = [k \in InitIds |-> FreeInit]
    /\ initCalls = 0
    /\ isInitialized = FALSE
    /\ succeeded = FALSE
    /\ store = <<>>
    /\ embeddingCache = <<>>
    /\ embeddingModel \in EmbeddingModels
    /\ chatSessions = <<>>
    /\ ctxSent = [s \in SessionIds |-> <<>>]
    /\ accepted = {}
    /\ procs = [p \in Procs |-> IdleProc]
    /\ call = NoCall
    /\ now = 0

Init == InitWith(Corpora)

\* The RAG service is called directly: the loader's corpus plays no part.
InitRag == InitWith({<<Doc1>>})

InitializeSteps ==
    \E k \in InitIds :
        \/ InitializeCleared(k)
        \/ ProcessOneDocument(k)
        \/ ProcessDocumentsDone(k)
        \/ InitializeAddDocument(k)
        \/ InitializeSucceeds(k)
        \/ InitializeFails(k)

QuerySteps ==
    \E p \in Procs :
        \/ QueryEmbedded(p)
        \/ QueryGenerated(p)

LoadSteps ==
    \/ \E k \in InitIds : PerformLoadSettles(k)
    \/ \E p \in Procs : LoadSettled(p)

\* The corpus loader under concurrent callers.
NextLoader ==
    \/ \E p \in Procs : LoadCall(p)
    \/ \E p \in Procs : ReloadCall(p)
    \/ \E p \in Procs : QueryWithContextCall(p)
    \/ \E p \in Procs : QueryWithContextLoaded(p)
    \/ \E p \in Procs : LoadReturn(p)
    \/ \E p \in Procs : QueryReturn(p)
    \/ LoadSteps
    \/ InitializeSteps
    \/ QuerySteps

SpecLoader == Init /\ [][NextLoader]_vars

\* The RAG service called directly.
NextRag ==
    \/ \E documents \in DocumentLists : UpdateDocumentsCall(documents)
    \/ \E p \in Clients : RagQueryCall(p)
    \/ \E p \in Clients : QueryReturn(p)
    \/ \E p \in Clients, document \in {Doc2, NullDocument} : AddDocumentCall(p, document)
    \/ \E p \in Clients : AddDocumentProcessed(p)
    \/ \E p \in Clients : AddDocumentStored(p)
    \/ \E p \in Clients, documentId \in {"d1", "d2"} : RemoveDocumentCall(p, documentId)
    \/ InitializeSteps
    \/ QuerySteps

SpecRag == InitRag /\ [][NextRag]_vars

\* The chat routes over the loader and the RAG service.  The route loads
\* the corpus itself before it calls queryWithContext, and nothing here
\* resets the loader, so queryWithContext never has to load on its own.
NextChat ==
    \/ \E p \in Procs : ChatCall(p)
    \/ \E p \in Procs : ChatLoaded(p)
    \/ \E p \in Procs : ChatAfterRag(p)
    \/ \E p \in Procs : ChatGenerated(p)
    \/ \E p \in Procs, sessionId \in SessionIds : HistoryCall(p, sessionId)
    \/ LoadSteps
    \/ InitializeSteps
    \/ QuerySteps

SpecChat == Init /\ [][NextChat]_vars

Spec == SpecChat

(***************************************************************************)
(* query() on a service that is ready, over stores of every shape.         *)
(***************************************************************************)
MaxStored == 6

DocIds == <<"d1", "d2", "d3", "d4", "d5", "d6", "d7", "d8">>

\* The vectors the stored documents and chunks have: against a question
\* sent to <<1, 0>> their similarities are 1, 0.948, 0.707, 0.316, 0.287,
\* 0 and -1.
Palette == << <<1, 0>>, <<3, 1>>, <<1, 1>>, <<1, 3>>, <<3, 10>>, <<0, 1>>, <<0 - 1, 0>> >>

\* A processed document as processDocument returns it, with one chunk.
StoredDocument(i, a, b) ==
    [id |-> DocIds[i], title |-> <<65>>, content |-> <<97>>, section |-> "PROFILE",
     embedding |-> Palette[a],
     chunks |-> <<[startIndex |-> 0, endIndex |-> 1, embedding |-> Palette[b]]>>]

\* Stores of 0 to MaxStored documents whose vectors run through the palette.
QueryStores ==
    {[i \in 1..n |-> StoredDocument(i, ((i + a) % Len(Palette)) + 1,
                                       ((2 * i + b) % Len(Palette)) + 1)] :
        n \in 0..MaxStored, a \in 0..(Len(Palette) - 1), b \in 0..(Len(Palette) - 1)}

\* The service after an initialize that succeeded.
InitQuery ==
    /\ isLoaded = FALSE
    /\ isLoading = FALSE
    /\ loadingPromise = 0
    /\ onboardingDocuments = <<Doc1>>
    /\ inits = [k \in InitIds |-> FreeInit]
    /\ initCalls = 0
    /\ isInitialized = TRUE
    /\ succeeded = TRUE
    /\ store \in QueryStores
    /\ embeddingCache = <<>>
    /\ embeddingModel \in EmbeddingModels
    /\ chatSessions = <<>>
    /\ ctxSent = [s \in SessionIds |-> <<>>]
    /\ accepted = {}
    /\ procs = [p \in Procs |-> IdleProc]
    /\ call = NoCall
    /\ now = 0

NextQuery ==
    \/ \E p \in Clients : RagQueryCall(p)
    \/ \E p \in Clients : QueryEmbedded(p)
    \/ \E p \in Clients : QueryGenerated(p)
    \/ \E p \in Clients : QueryReturn(p)

SpecQuery == InitQuery /\ [][NextQuery]_vars

(***************************************************************************)
(* The chat routes under a clock.  `new Date()` has a resolution of one    *)
(* millisecond: between two readings the clock has advanced or it has not. *)
(***************************************************************************)
MaxNow == 2

Tick ==
    /\ now < MaxNow
    /\ now' = now + 1
    /\ UNCHANGED <<loaderVars, onboardingDocuments, embeddingModel, call, inits,
                   initCalls, isInitialized, succeeded, store, embeddingCache,
                   chatVars, procs>>

\* The corpus is loaded and the service is ready, with a document that is
\* relevant to every question or with one that is relevant to none.
InitTime ==
    /\ isLoaded = TRUE
    /\ isLoading = FALSE
    /\ loadingPromise = 0
    /\ onboardingDocuments = <<Doc1>>
    /\ inits = [k \in InitIds |-> FreeInit]
    /\ initCalls = 0
    /\ isInitialized = TRUE
    /\ succeeded = TRUE
    /\ store \in {<<StoredDocument(1, 1, 1)>>, <<StoredDocument(1, 6, 6)>>}
    /\ embeddingCache = <<>>
    /\ embeddingModel = [t \in DocumentTexts \cup QueryTexts |-> <<1, 0>>]
    /\ chatSessions = <<>>
    /\ ctxSent = [s \in SessionIds |-> <<>>]
    /\ accepted = {}
    /\ procs = [p \in Procs |-> IdleProc]
    /\ call = NoCall
    /\ now = 0

NextTime ==
    \/ \E p \in Procs : ChatCall(p)
    \/ \E p \in Procs : ChatAfterRag(p)
    \/ \E p \in Procs : ChatGenerated(p)
    \/ QuerySteps
    \/ Tick

SpecTime == InitTime /\ [][NextTime]_vars

(***************************************************************************)
(* processDocuments on lists of several documents, through initialize.     *)
(***************************************************************************)
\* Lists in which a document follows one that may fail, one of them longer
\* than a batch of three, and one with a null element.
ProcessLists ==
    {<<Doc1, Doc2>>, <<Doc2, Doc1, Doc2, Doc1>>, <<Doc1, NullDocument>>}

NextProcess ==
    \/ \E documents \in ProcessLists : UpdateDocumentsCall(documents)
    \/ InitializeSteps

SpecProcess == InitRag /\ [][NextProcess]_vars

(***************************************************************************)
(* Documents of every kind handed to initialize and to addDocument.        *)
(***************************************************************************)
AdmitDocuments == {DocUnknownSection}

AdmitLists == {<<Doc1, DocBlankTitle>>}

NextAdmit ==
    \/ \E documents \in AdmitLists : UpdateDocumentsCall(documents)
    \/ \E p \in Clients, document \in AdmitDocuments : AddDocumentCall(p, document)
    \/ \E p \in Clients : AddDocumentProcessed(p)
    \/ \E p \in Clients : AddDocumentStored(p)
    \/ \E k \in InitIds : InitializeCleared(k)
    \/ \E k \in InitIds : ProcessOneDocument(k)
    \/ \E k \in InitIds : ProcessDocumentsDone(k)
    \/ \E k \in InitIds : InitializeAddDocument(k)
    \/ \E k \in InitIds : InitializeSucceeds(k)

SpecAdmit == InitRag /\ [][NextAdmit]_vars

(***************************************************************************)
(* The vector store taken alone.                                           *)
(***************************************************************************)
MaxStoreIds == 2

\* Processed documents under MaxStoreIds ids, several under each id, with
\* no chunk, one chunk and two chunks.
StoreDocuments ==
    UNION {{[StoredDocument(i, 1, 2) EXCEPT !.chunks = <<>>],
            StoredDocument(i, 3, 6),
            StoredDocument(i, 6, 1),
            [StoredDocument(i, 4, 5) EXCEPT
                !.chunks = @ \o <<[startIndex |-> 0, endIndex |-> 1,
                                   embedding |-> Palette[2]]>>]} :
           i \in 1..MaxStoreIds}

TopKs == {1, 2, maxSources, maxSources * 2}

VectorStoreAddDocument(document) ==
    /\ store' = StoreAdd(store, document)
    /\ call' = [fn |-> "addDocument", document |-> document, before |-> store]
    /\ UNCHANGED <<loaderVars, envVars, inits, initCalls, isInitialized, succeeded,
                   embeddingCache, chatVars, procs>>

VectorStoreRemoveDocument(documentId) ==
    /\ store' = StoreRemove(store, documentId)
    /\ call' = [fn |-> "removeDocument", documentId |-> documentId, before |-> store]
    /\ UNCHANGED <<loaderVars, envVars, inits, initCalls, isInitialized, succeeded,
                   embeddingCache, chatVars, procs>>

VectorStoreClear ==
    /\ store' = <<>>
    /\ call' = [fn |-> "clear", before |-> store]
    /\ UNCHANGED <<loaderVars, envVars, inits, initCalls, isInitialized, succeeded,
                   embeddingCache, chatVars, procs>>

VectorStoreFindSimilar(queryEmbedding, topK) ==
    /\ call' = [fn |-> "findSimilar", queryEmbedding |-> queryEmbedding, topK |-> topK,
                results |-> findSimilar(store, queryEmbedding, topK)]
    /\ UNCHANGED <<loaderVars, envVars, inits, initCalls, isInitialized, succeeded,
                   store, embeddingCache, chatVars, procs>>

NextStore ==
    \/ \E document \in StoreDocuments : VectorStoreAddDocument(document)
    \/ \E i \in 1..(MaxStoreIds + 1) : VectorStoreRemoveDocument(DocIds[i])
    \/ VectorStoreClear
    \/ \E queryEmbedding \in {<<1, 0>>, <<0, 1>>}, topK \in TopKs :
           VectorStoreFindSimilar(queryEmbedding, topK)

SpecStore == InitRag /\ [][NextStore]_vars

(***************************************************************************)
(* The embedding provider taken alone: callers of generateEmbeddings that  *)
(* overlap.  A call looks into the cache before it suspends on the         *)
(* upstream model and writes the cache when the model has answered.        *)
(***************************************************************************)
NumEmbedCallers == 3
EmbedCallers == 1..NumEmbedCallers

\* "Aa" and "BB", which createCacheKey sends to the same key, and "h".
TextAa == <<65, 97>>
TextBB == <<66, 66>>
TextH == <<104>>
EmbedTexts == {TextAa, TextBB, TextH}

\* An upstream model that gives every text a vector of its own.
EmbedModel ==
    [t \in EmbedTexts |->
        IF t = TextAa THEN <<1, 0>> ELSE IF t = TextBB THEN <<0, 1>> ELSE <<1, 1>>]

InitEmbed ==
    /\ isLoaded = FALSE
    /\ isLoading = FALSE
    /\ loadingPromise = 0
    /\ onboardingDocuments = <<Doc1>>
    /\ inits = [k \in InitIds |-> FreeInit]
    /\ initCalls = 0
    /\ isInitialized = FALSE
    /\ succeeded = FALSE
    /\ store = <<>>
    /\ embeddingCache = <<>>
    /\ embeddingModel = EmbedModel
    /\ chatSessions = <<>>
    /\ ctxSent = [s \in SessionIds |-> <<>>]
    /\ accepted = {}
    /\ procs = [p \in EmbedCallers |-> IdleProc]
    /\ call = NoCall
    /\ now = 0

\* generateEmbeddings(text) up to its await: a hit returns the cached
\* vector; a miss calls the upstream model.
GenerateEmbeddingsCall(p, text) ==
    /\ procs[p].pc = "idle"
    /\ procs' = [procs EXCEPT ![p] =
                    IF CacheHas(embeddingCache, text)
                    THEN [IdleProc EXCEPT !.op = "embed", !.pc = "done",
                                          !.question = text, !.hit = TRUE,
                                          !.result = "ok",
                                          !.embedding =
                                              embeddingCache[createCacheKey(text)]]
                    ELSE [IdleProc EXCEPT !.op = "embed", !.pc = "embed_wait",
                                          !.question = text, !.embedCalls = 1]]
    /\ UNCHANGED <<loaderVars, envVars, call, inits, initCalls, isInitialized,
                   succeeded, store, embeddingCache, chatVars>>

\* The upstream model has answered, and the vector is cached and returned,
\* or it has failed, and the failure is rethrown.
GenerateEmbeddingsSettles(p) ==
    /\ procs[p].pc = "embed_wait"
    /\ \E ok \in BOOLEAN :
           LET text == procs[p].question
               e == generateEmbeddings(<<>>, text, Upstream(text, ok))
           IN  IF e.ok
               THEN /\ embeddingCache' = CachePut(embeddingCache, text, e.embedding)
                    /\ procs' = [procs EXCEPT ![p].pc = "done", ![p].result = "ok",
                                              ![p].embedding = e.embedding]
               ELSE /\ procs' = [procs EXCEPT ![p].pc = "done", ![p].result = "err"]
                    /\ UNCHANGED embeddingCache
    /\ UNCHANGED <<loaderVars, envVars, call, inits, initCalls, isInitialized,
                   succeeded, store, chatVars>>

NextEmbed ==
    \/ \E p \in EmbedCallers, text \in EmbedTexts : GenerateEmbeddingsCall(p, text)
    \/ \E p \in EmbedCallers : GenerateEmbeddingsSettles(p)

SpecEmbed == InitEmbed /\ [][NextEmbed]_vars

(***************************************************************************)
(* calculateConfidence in the arithmetic of the program.  A JavaScript     *)
(* number is a binary floating-point number and every operation rounds     *)
(* its result to the nearest one, ties to even.  Here a number m / 2^e has *)
(* Precision significant bits where the program's have 53.                 *)
(***************************************************************************)
Precision == 12

RECURSIVE Pow2(_)
Pow2(n) == IF n = 0 THEN 1 ELSE 2 * Pow2(n - 1)

\* The denominator doubled until num / den is below 2^Precision.
RECURSIVE ScaleDown(_, _, _)
ScaleDown(num, den, k) ==
    IF num < Pow2(Precision) * den THEN [den |-> den, k |-> k]
    ELSE ScaleDown(num, 2 * den, k + 1)

\* The numerator doubled until num / den is at least 2^(Precision - 1).
RECURSIVE ScaleUp(_, _, _)
ScaleUp(num, den, k) ==
    IF num >= Pow2(Precision - 1) * den THEN [num |-> num, k |-> k]
    ELSE ScaleUp(2 * num, den, k + 1)

\* The number nearest to (num / den) / 2^e.
Fl(num, den, e) ==
    IF num = 0 THEN [m |-> 0, e |-> 0]
    ELSE LET d == ScaleDown(num, den, 0)
             u == ScaleUp(num, d.den, 0)
             q == u.num \div d.den
             r == u.num % d.den
             m == IF 2 * r > d.den \/ (2 * r = d.den /\ q % 2 = 1) THEN q + 1 ELSE q
             ex == e + u.k - d.k
         IN  IF m = Pow2(Precision) THEN [m |-> Pow2(Precision - 1), e |-> ex - 1]
             ELSE [m |-> m, e |-> ex]

FlMul(x, y) == Fl(x.m * y.m, 1, x.e + y.e)

FlAdd(x, y) ==
    LET e == Max(x.e, y.e)
    IN  Fl(x.m * Pow2(e - x.e) + y.m * Pow2(e - y.e), 1, e)

FlDiv(x, y) == Fl(x.m, y.m, x.e - y.e)

FlOne == Fl(1, 1, 0)

\* Math.min(x, 1.0)
FlMinOne(x) == IF x.m >= Pow2(x.e) THEN FlOne ELSE x

\* Math.round(x): the half goes up.
MathRound(x) == (2 * x.m + Pow2(x.e)) \div Pow2(x.e + 1)

\* The forEach of calculateConfidence from source i on.
RECURSIVE WeightedSums(_, _, _, _)
WeightedSums(scores, i, weightedSum, totalWeight) ==
    IF i > Len(scores) THEN [weightedSum |-> weightedSum, totalWeight |-> totalWeight]
    ELSE LET weight == Fl(1, i, 0)
         IN  WeightedSums(scores, i + 1,
                          FlAdd(weightedSum, FlMul(scores[i], weight)),
                          FlAdd(totalWeight, weight))

\* calculateConfidence on the relevance scores of the sources, in
\* hundredths: the value of Math.round(confidence * 100).
calculateConfidenceFloat(scores) ==
    IF Len(scores) = 0 THEN 0
    ELSE LET sums == WeightedSums(scores, 1, Fl(0, 1, 0), Fl(0, 1, 0))
             averageRelevance == FlDiv(sums.weightedSum, sums.totalWeight)
             confidence == FlMinOne(FlMul(averageRelevance, Fl(12, 10, 0)))
             boosted == IF Len(scores) >= 3
                        THEN FlMinOne(FlMul(confidence, Fl(11, 10, 0)))
                        ELSE confidence
         IN  MathRound(FlMul(boosted, Fl(100, 1, 0)))

\* The numbers from the threshold 0.3 to 1.
Scores ==
    {x \in [m : Pow2(Precision - 1)..(Pow2(Precision) - 1),
            e : {Precision, Precision + 1}] :
        10 * x.m >= 3 * Pow2(x.e)}
    \cup {FlOne}

\* The second scores a first score is taken with: itself, the two numbers
\* after it and 1.
Seconds(first) ==
    {first, FlOne} \cup
    {[m |-> first.m + j, e |-> first.e] :
        j \in {i \in 1..2 : first.m + i < Pow2(Precision)}}

InitConfidence ==
    /\ InitWith({<<Doc1>>})
    /\ embeddingModel = [t \in DocumentTexts \cup QueryTexts |-> <<1, 0>>]

\* calculateConfidence on one source and on that source after a second one
\* that is not less similar, which is the order query puts them in.
CalculateConfidenceCall ==
    /\ call.fn = "none"
    /\ \E first \in Scores :
           \E second \in Seconds(first) :
               call' = [fn |-> "calculateConfidence", first |-> first,
                        second |-> second,
                        alone |-> calculateConfidenceFloat(<<first>>),
                        together |-> calculateConfidenceFloat(<<second, first>>)]
    /\ UNCHANGED <<loaderVars, envVars, inits, initCalls, isInitialized, succeeded,
                   store, embeddingCache, chatVars, procs>>

NextConfidence == CalculateConfidenceCall

SpecConfidence == InitConfidence /\ [][NextConfidence]_vars

(***************************************************************************)
(* formatResponseForFrontend and formatChatResponse on texts of one line   *)
(* without white space, on which the replacements that look for a line     *)
(* start followed by white space, for newlines, for blanks and tabs find   *)
(* nothing and trim() removes nothing.  The other replacements follow, in  *)
(* the order of the code.  42 is '*', 95 '_', 35 '#', 96 '`', 91 '[',      *)
(* 93 ']', 40 '(', 41 ')', 92 '\', 45 '-', 46 '.', 33 '!', 63 '?'.         *)
(***************************************************************************)
MatchAt(text, pat, i) ==
    /\ i + Len(pat) - 1 <= Len(text)
    /\ SubSeq(text, i, i + Len(pat) - 1) = pat

\* The first index from i on at which pat occurs, 0 when there is none.
RECURSIVE FindFirst(_, _, _)
FindFirst(text, pat, i) ==
    IF i + Len(pat) - 1 > Len(text) THEN 0
    ELSE IF MatchAt(text, pat, i) THEN i
    ELSE FindFirst(text, pat, i + 1)

\* .replace(/pat(.*?)pat/g, '$1') when keep, .replace(/pat[\s\S]*?pat/g, '')
\* when not: from i on, the leftmost pat that has a pat after it goes with
\* the nearest such pat.
RECURSIVE Unwrap(_, _, _, _)
Unwrap(text, pat, keep, i) ==
    IF i > Len(text) THEN <<>>
    ELSE LET close == IF MatchAt(text, pat, i)
                      THEN FindFirst(text, pat, i + Len(pat)) ELSE 0
         IN  IF close > 0
             THEN (IF keep THEN SubSeq(text, i + Len(pat), close - 1) ELSE <<>>)
                  \o Unwrap(text, pat, keep, close + Len(pat))
             ELSE <<text[i]>> \o Unwrap(text, pat, keep, i + 1)

\* .replace(/`([^`]+)`/g, '$1')
RECURSIVE UnwrapCode(_, _)
UnwrapCode(text, i) ==
    IF i > Len(text) THEN <<>>
    ELSE LET close == IF text[i] = 96 THEN FindFirst(text, <<96>>, i + 1) ELSE 0
         IN  IF close > i + 1
             THEN SubSeq(text, i + 1, close - 1) \o UnwrapCode(text, close + 1)
             ELSE <<text[i]>> \o UnwrapCode(text, i + 1)

\* .replace(/\[([^\]]+)\]\([^)]+\)/g, '$1')
RECURSIVE Unlink(_, _)
Unlink(text, i) ==
    IF i > Len(text) THEN <<>>
    ELSE LET bracket == IF text[i] = 91 THEN FindFirst(text, <<93>>, i + 1) ELSE 0
             paren == IF bracket > i + 1 /\ MatchAt(text, <<40>>, bracket + 1)
                      THEN FindFirst(text, <<41>>, bracket + 2) ELSE 0
         IN  IF paren > bracket + 2
             THEN SubSeq(text, i + 1, bracket - 1) \o Unlink(text, paren + 1)
             ELSE <<text[i]>> \o Unlink(text, i + 1)

\* .replace(/^[-*_]{3,}$/gm, '') on a text of one line
HorizontalRule(text) ==
    IF Len(text) >= 3 /\ \A i \in 1..Len(text) : text[i] \in {45, 42, 95}
    THEN <<>> ELSE text

\* if (formatted && !formatted.match(/[.!?]$/)) formatted += '.'
SentenceEnd(text) ==
    IF text /= <<>> /\ text[Len(text)] \notin {46, 33, 63} THEN Append(text, 46)
    ELSE text

Keep(code) == code \notin {42, 95, 35, 96}

NoBackslash(code) == code /= 92

formatResponseForFrontend(rawResponse) ==
    LET bold == Unwrap(Unwrap(rawResponse, <<42, 42>>, TRUE, 1), <<95, 95>>, TRUE, 1)
        italic == Unwrap(Unwrap(bold, <<42>>, TRUE, 1), <<95>>, TRUE, 1)
        code == UnwrapCode(Unwrap(italic, <<96, 96, 96>>, FALSE, 1), 1)
        formatted == SentenceEnd(HorizontalRule(Unlink(code, 1)))
    IN  SelectSeq(formatted, Keep)

\* The same replacements, and .replace(/\\/g, '') at the end.
formatChatResponse(rawResponse) ==
    SelectSeq(formatResponseForFrontend(rawResponse), NoBackslash)

MaxPieces == 4

\* "a", "!", the markdown characters and their doubles, "[a]", "(a)", "\".
Pieces ==
    {<<97>>, <<33>>, <<42>>, <<42, 42>>, <<95>>, <<35>>, <<96>>, <<96, 96, 96>>,
     <<91, 97, 93>>, <<40, 97, 41>>, <<92>>}

RECURSIVE Joined(_)
Joined(n) ==
    IF n = 0 THEN {<<>>}
    ELSE Joined(n - 1) \cup {text \o piece : text \in Joined(n - 1), piece \in Pieces}

RawResponses == Joined(MaxPieces)

InitFormat ==
    /\ InitWith({<<Doc1>>})
    /\ embeddingModel = [t \in DocumentTexts \cup QueryTexts |-> <<1, 0>>]

FormatCall ==
    /\ call.fn = "none"
    /\ \E rawResponse \in RawResponses :
           call' = [fn |-> "format", rawResponse |-> rawResponse,
                    answer |-> formatResponseForFrontend(rawResponse),
                    chat |-> formatChatResponse(rawResponse)]
    /\ UNCHANGED <<loaderVars, envVars, inits, initCalls, isInitialized, succeeded,
                   store, embeddingCache, chatVars, procs>>

NextFormat == FormatCall

SpecFormat == InitFormat /\ [][NextFormat]_vars

(***************************************************************************)
(* createDocumentChunks on contents of every shape.                        *)
(***************************************************************************)
MaxContent == 1700

ContentLengths ==
    {0, 1, chunkSize, chunkSize + 1, chunkSize + chunkOverlap, 1200,
     2 * chunkSize + 1, MaxContent}

\* The 0-based indices at which a content may have a full stop or a newline.
BreakPlaces == {300, 400, 401, 799, 800, 1100, 1151, 1450, 1500}

\* A content of letters with a full stop at the indices of stops and a
\* newline at those of newlines.
Content(length, stops, newlines) ==
    [i \in 1..length |-> IF (i - 1) \in stops THEN 46
                         ELSE IF (i - 1) \in newlines THEN 10 ELSE 97]

Contents ==
    {Content(length, stops, newlines) :
        length \in ContentLengths,
        stops \in {{}} \cup {{a} : a \in BreakPlaces},
        newlines \in {{}} \cup {{a} : a \in BreakPlaces}}

InitChunks == InitWith({<<Doc1>>})

CreateDocumentChunksCall ==
    /\ call.fn = "none"
    /\ \E content \in Contents :
           call' = [fn |-> "createDocumentChunks", content |-> content,
                    chunks |-> createDocumentChunks(content)]
    /\ UNCHANGED <<loaderVars, envVars, inits, initCalls, isInitialized, succeeded,
                   store, embeddingCache, chatVars, procs>>

NextChunks == CreateDocumentChunksCall

SpecChunks == InitChunks /\ [][NextChunks]_vars

(***************************************************************************)
(* createDocumentChunks with its embedding calls.  The window loop has no  *)
(* await: it cuts every chunk and calls the chunk's async function, which  *)
(* runs up to its await of generateEmbeddings, so one step makes every     *)
(* chunk's promise.  The batch loop then awaits the promises two at a      *)
(* time.                                                                   *)
(***************************************************************************)
batchSize == 2

MaxBatchContent == 2300

BatchContents ==
    {Content(length, {}, {}) :
        length \in {chunkSize, chunkSize + 1, MaxContent, MaxBatchContent}}

BatchTexts ==
    UNION {LET spans == createDocumentChunks(content)
           IN  {spans[j].content : j \in 1..Len(spans)} : content \in BatchContents}

InitBatch ==
    /\ isLoaded = FALSE
    /\ isLoading = FALSE
    /\ loadingPromise = 0
    /\ onboardingDocuments = <<Doc1>>
    /\ inits = [k \in InitIds |-> FreeInit]
    /\ initCalls = 0
    /\ isInitialized = FALSE
    /\ succeeded = FALSE
    /\ store = <<>>
    /\ embeddingCache \in {<<>>, CachePut(<<>>, Content(chunkSize, {}, {}), <<1, 0>>)}
    /\ embeddingModel = [t \in BatchTexts |-> <<1, 0>>]
    /\ chatSessions = <<>>
    /\ ctxSent = [s \in SessionIds |-> <<>>]
    /\ accepted = {}
    /\ procs = [p \in Procs |-> IdleProc]
    /\ call = NoCall
    /\ now = 0

\* The promise of generateEmbeddings(text) when the call has run up to its
\* await: fulfilled from the cache, or pending on the upstream model.
EmbeddingPromise(text) ==
    IF CacheHas(embeddingCache, text)
    THEN [text |-> text, st |-> "fulfilled", upstream |-> FALSE]
    ELSE [text |-> text, st |-> "pending", upstream |-> TRUE]

\* createDocumentChunks(document) up to its first await: the one call of a
\* document that fits a chunk, or the whole window loop of a longer one.
CreateDocumentChunksStarts ==
    /\ call.fn = "none"
    /\ \E content \in BatchContents :
           LET spans == createDocumentChunks(content)
           IN  call' = [fn |-> "createDocumentChunks",
                        pc |-> IF Len(content) <= chunkSize THEN "single"
                               ELSE "batches",
                        promises |-> [j \in 1..Len(spans) |->
                                         EmbeddingPromise(spans[j].content)],
                        i |-> 0,
                        chunks |-> 0]
    /\ UNCHANGED <<loaderVars, envVars, inits, initCalls, isInitialized, succeeded,
                   store, embeddingCache, chatVars, procs>>

\* The upstream model answers the call of chunk j, and generateEmbeddings
\* caches and returns the vector, or it fails, and the failure is rethrown.
ChunkEmbeddingSettles(j) ==
    /\ call.fn = "createDocumentChunks"
    /\ j \in 1..Len(call.promises)
    /\ call.promises[j].st = "pending"
    /\ \E ok \in BOOLEAN :
           LET text == call.promises[j].text
               e == generateEmbeddings(<<>>, text, Upstream(text, ok))
           IN  IF e.ok
               THEN /\ embeddingCache' = CachePut(embeddingCache, text, e.embedding)
                    /\ call' = [call EXCEPT !.promises[j].st = "fulfilled"]
               ELSE /\ call' = [call EXCEPT !.promises[j].st = "rejected"]
                    /\ UNCHANGED embeddingCache
    /\ UNCHANGED <<loaderVars, envVars, inits, initCalls, isInitialized, succeeded,
                   store, chatVars, procs>>

\* The await of the one call of a document that fits a chunk.
SingleChunkAwaited ==
    /\ call.fn = "createDocumentChunks"
    /\ call.pc = "single"
    /\ call.promises[1].st /= "pending"
    /\ call' = IF call.promises[1].st = "fulfilled"
               THEN [call EXCEPT !.pc = "returned", !.chunks = 1]
               ELSE [call EXCEPT !.pc = "thrown"]
    /\ UNCHANGED <<loaderVars, envVars, inits, initCalls, isInitialized, succeeded,
                   store, embeddingCache, chatVars, procs>>

\* await Promise.all(chunkPromises.slice(i, i + batchSize)): it throws when
\* a promise of the batch has rejected, and otherwise, when all of them are
\* fulfilled, their chunks are pushed and the loop goes on or returns.
BatchAwaited ==
    /\ call.fn = "createDocumentChunks"
    /\ call.pc = "batches"
    /\ LET n == Len(call.promises)
           batch == {j \in 1..n : call.i < j /\ j <= call.i + batchSize}
       IN  \/ /\ \E j \in batch : call.promises[j].st = "rejected"
              /\ call' = [call EXCEPT !.pc = "thrown"]
           \/ /\ \A j \in batch : call.promises[j].st = "fulfilled"
              /\ call' = [call EXCEPT !.i = call.i + batchSize,
                                      !.chunks = call.chunks + Cardinality(batch),
                                      !.pc = IF call.i + batchSize < n
                                             THEN "batches" ELSE "returned"]
    /\ UNCHANGED <<loaderVars, envVars, inits, initCalls, isInitialized, succeeded,
                   store, embeddingCache, chatVars, procs>>

NextBatch ==
    \/ CreateDocumentChunksStarts
    \/ \E j \in 1..4 : ChunkEmbeddingSettles(j)
    \/ SingleChunkAwaited
    \/ BatchAwaited

SpecBatch == InitBatch /\ [][NextBatch]_vars

(***************************************************************************)
(* The properties.                                                         *)
(***************************************************************************)
NoReload == \A p \in Procs : procs[p].op /= "reload"

FailedInits == {k \in InitIds : inits[k].st \in {"failed", "thrown"}}

\* C1: when callers of loadOnboardingDocumentation (directly or through
\* queryWithContext) overlap and nobody reloads, RAGService.initialize is
\* invoked once and no more, a further time only after a run has failed;
\* as soon as anyone has called it has been invoked; and every caller of
\* loadOnboardingDocumentation that returned after a load that succeeded,
\* or without waiting, returned normally and finds isLoaded true.
C1_InitializeOnce ==
    NoReload =>
        /\ initCalls <= 1 + Cardinality(FailedInits)
        /\ (\E p \in Procs : procs[p].pc /= "idle") => initCalls >= 1
        /\ \A p \in Procs :
               (/\ procs[p].op = "load"
                /\ procs[p].pc = "done"
                /\ procs[p].await = 0 \/ inits[procs[p].await].st = "ok")
               => procs[p].result = "ok" /\ procs[p].sawLoaded

\* Two overlapping callers have returned: one started the load, the other
\* joined it, and initialize ran once.
C1_Witness ==
    /\ initCalls = 1
    /\ \E p, q \in Procs :
           /\ procs[p].op = "load" /\ procs[p].pc = "done" /\ procs[p].owner
           /\ procs[q].op = "load" /\ procs[q].pc = "done" /\ ~procs[q].owner
           /\ procs[q].await = 1
           /\ procs[p].sawLoaded /\ procs[q].sawLoaded

\* C2: at any moment at most one load of the corpus (performLoad with its
\* RAGService.initialize) is in progress, whatever the interleaving of
\* loadOnboardingDocumentation, queryWithContext and reloadDocumentation.
C2_OneLoadInProgress ==
    Cardinality({k \in InitIds : inits[k].viaLoader /\ inits[k].prom = "pending"}) <= 1

\* C3: a query() that is called before any initialize has succeeded fails
\* with NotInitialized at once and has called neither the embedding
\* provider, nor the similarity search, nor the generation model.
C3_QueryBeforeReady ==
    \A p \in Procs :
        (procs[p].op = "query" /\ procs[p].pc /= "idle" /\ ~procs[p].entryReady)
        => /\ procs[p].qstatus = "notinit"
           /\ procs[p].pc \in {"query_ret", "done"}
           /\ procs[p].embedCalls = 0
           /\ procs[p].simCalls = 0
           /\ procs[p].genCalls = 0

\* A query was refused while the first initialize had already put a
\* document into the store.
C3_Witness ==
    \E p \in Procs, k \in InitIds :
        /\ procs[p].op = "query" /\ procs[p].pc = "done"
        /\ procs[p].result = "notinit"
        /\ inits[k].st = "adding" /\ Len(store) > 0

\* C4: the step in which a run of initialize throws leaves the service
\* uninitialized, also when the service was ready before the run.
C4_FailureLeavesUninitialized ==
    [][\A k \in InitIds :
          (inits[k].st = "failed" /\ inits'[k].st = "thrown") => ~isInitialized']_vars

\* C5: when the similarity search of a query has returned and none of its
\* candidates reaches the threshold of 0.3, the query ends with the fixed
\* "not enough information" answer, no sources and confidence 0, and the
\* generation model has not been called.
C5_NothingRelevant ==
    \A p \in Procs :
        (/\ procs[p].op = "query"
         /\ procs[p].simCalls = 1
         /\ procs[p].qstatus /= "failed"
         /\ \A i \in 1..Len(procs[p].similar) :
                procs[p].similar[i].similarity < SimilarityThresholdMilli)
        => /\ procs[p].pc \in {"query_ret", "done"}
           /\ procs[p].qstatus = "ok"
           /\ procs[p].response = [answer |-> NotEnoughInformation,
                                   sources |-> <<>>, confidence |-> 0]
           /\ procs[p].genCalls = 0

\* A query found candidates, all of them under the threshold.
C5_Witness ==
    \E p \in Procs :
        /\ procs[p].op = "query" /\ procs[p].pc = "done"
        /\ Len(procs[p].similar) > 0
        /\ \A i \in 1..Len(procs[p].similar) :
               procs[p].similar[i].similarity < SimilarityThresholdMilli
        /\ procs[p].response.answer = NotEnoughInformation

\* C6: the messages of a session's history are never interleaved: between
\* two messages of one request there is no message of another request.
C6_TurnsSerialized ==
    \A s \in DOMAIN chatSessions :
        LET m == chatSessions[s].messages
        IN  \A i, j, k \in 1..Len(m) :
                (i < j /\ j < k /\ m[i].id[1] = m[k].id[1]) => m[j].id[1] = m[i].id[1]

\* The last value of a field among the first n contexts a session was
\* sent, "" when none of them has the field.
LastSent(sent, n, field) ==
    LET with == {i \in 1..n : sent[i][field] /= ""}
    IN  IF with = {} THEN ""
        ELSE sent[CHOOSE i \in with : \A j \in with : j <= i][field]

MergedSent(sent, n) ==
    [section |-> LastSent(sent, n, "section"), step |-> LastSent(sent, n, "step")]

\* C7: the context a session holds is the field-wise merge of the contexts
\* its accepted requests were sent, a later value overriding an earlier
\* one, and a response echoes the context the session held when it was
\* sent, whether or not its own request carried one.
C7_ContextMerged ==
    /\ \A s \in DOMAIN chatSessions :
           chatSessions[s].context = MergedSent(ctxSent[s], Len(ctxSent[s]))
    /\ \A p \in Procs :
           (procs[p].op = "chat" /\ procs[p].status = 200)
           => procs[p].respCtx = MergedSent(ctxSent[procs[p].sid], procs[p].respAt)

\* A request with section PROFILE, then one without a context on the same
\* session, whose response echoes PROFILE.
C7_Witness ==
    \E p, q \in Procs :
        /\ p /= q
        /\ procs[p].op = "chat" /\ procs[p].status = 200
        /\ procs[p].hasContext /\ procs[p].context.section = "PROFILE"
        /\ procs[q].op = "chat" /\ procs[q].status = 200
        /\ ~procs[q].hasContext
        /\ procs[q].sid = procs[p].sid
        /\ chatSessions[procs[p].sid].messages[1].id = <<p, 1>>
        /\ procs[q].respCtx.section = "PROFILE"

RagFailed(p) == procs[p].qstatus \in {"failed", "notinit", "loadfail"}

\* C9: a chat request whose queryWithContext failed never reaches the
\* generation model and ends with status 200, no sources, and its user
\* message and its assistant message both in the session.
C9_RagFailureTolerated ==
    \A p \in Procs :
        (procs[p].op = "chat" /\ RagFailed(p))
        => /\ procs[p].pc \in {"query_ret", "done"}
           /\ procs[p].pc = "done" =>
                  /\ procs[p].status = 200
                  /\ procs[p].replySources = <<>>
                  /\ LET m == chatSessions[procs[p].sid].messages
                     IN  /\ \E i \in 1..Len(m) :
                                m[i] = UserMessage(p, procs[p].question)
                         /\ \E i \in 1..Len(m) :
                                /\ m[i].id = <<p, 2>>
                                /\ m[i].sender = "assistant"
                                /\ m[i].sources = <<>>

\* A request whose retrieval threw was answered with 200.
C9_Witness ==
    \E p \in Procs :
        /\ procs[p].op = "chat" /\ procs[p].pc = "done"
        /\ procs[p].qstatus = "failed"
        /\ procs[p].status = 200
        /\ Len(chatSessions[procs[p].sid].messages) >= 2

\* C10: a session id under which no chat request was accepted has no
\* session; a history request for it is answered not-found; and no history
\* request is answered with an empty history.
C10_UnknownSessionNotFound ==
    /\ \A s \in SessionIds : s \notin accepted => s \notin DOMAIN chatSessions
    /\ \A p \in Procs :
           procs[p].op = "history" =>
               /\ procs[p].sid \notin accepted => procs[p].status = 404
               /\ procs[p].status = 200 => procs[p].seenMessages /= <<>>

\* Two history requests for the same unknown id were both answered
\* not-found.
C10_Witness ==
    \E p, q \in Procs :
        /\ p /= q
        /\ procs[p].op = "history" /\ procs[p].status = 404
        /\ procs[q].op = "history" /\ procs[q].status = 404
        /\ procs[p].sid = procs[q].sid
        /\ procs[p].sid \notin DOMAIN chatSessions

QueryAnswered(p) ==
    /\ procs[p].op = "query"
    /\ procs[p].pc \in {"query_ret", "done"}
    /\ procs[p].qstatus = "ok"

\* C11: every response query() returns has confidence 0 exactly when it
\* has no sources, whatever the store holds and whether the generation
\* model answered or failed.
C11_ConfidenceZeroIffNoSources ==
    \A p \in Procs :
        QueryAnswered(p) =>
            (procs[p].response.confidence = 0 <=> procs[p].response.sources = <<>>)

\* A query whose generation call failed returned its sources with a
\* confidence above 0.
C11_Witness ==
    \E p \in Procs :
        /\ QueryAnswered(p)
        /\ procs[p].response.answer = TroubleGenerating
        /\ Len(procs[p].response.sources) >= 1
        /\ procs[p].response.confidence > 0

AtLeastThreshold(result) == result.similarity >= 300

\* C12: the sources of a response are the first min(5, m) of the m results
\* of findSimilar(embedding, 10) that reach 0.3, in their order, which is
\* by non-increasing similarity: never more than 5, none under 0.3.
C12_SourcesAreTopRelevant ==
    \A p \in Procs :
        QueryAnswered(p) =>
            LET reaching == SelectSeq(procs[p].similar, AtLeastThreshold)
                sources == procs[p].response.sources
            IN  /\ procs[p].similar = findSimilar(store, procs[p].embedding, 10)
                /\ Len(sources) = IF Len(reaching) < 5 THEN Len(reaching) ELSE 5
                /\ \A i \in 1..Len(sources) :
                       /\ sources[i].docId = reaching[i].docId
                       /\ sources[i].chunk = reaching[i].chunk
                       /\ sources[i].relevanceScore = reaching[i].similarity
                       /\ sources[i].relevanceScore >= 300
                /\ \A i \in 1..(Len(sources) - 1) :
                       sources[i].relevanceScore >= sources[i + 1].relevanceScore

\* More than five of the ten results reached 0.3, some did not, and five
\* sources were returned.
C12_Witness ==
    \E p \in Procs :
        /\ QueryAnswered(p)
        /\ Len(procs[p].similar) = 10
        /\ Len(SelectSeq(procs[p].similar, AtLeastThreshold)) > 5
        /\ Len(SelectSeq(procs[p].similar, AtLeastThreshold)) < 10
        /\ Len(procs[p].response.sources) = 5

Chunked == call.fn = "createDocumentChunks" /\ Len(call.content) > 800

\* C13: the chunks of a document longer than chunkSize: each has
\* startIndex < endIndex, the first starts at 0, the start indices
\* increase strictly, no chunk starts after the end of the one before it,
\* the end indices never decrease, and the last chunk ends where the
\* content ends.
C13_ChunksCoverContent ==
    Chunked =>
        LET chunks == call.chunks
        IN  /\ Len(chunks) >= 1
            /\ chunks[1].startIndex = 0
            /\ chunks[Len(chunks)].endIndex = Len(call.content)
            /\ \A i \in 1..Len(chunks) : chunks[i].startIndex < chunks[i].endIndex
            /\ \A i \in 1..(Len(chunks) - 1) :
                   /\ chunks[i].startIndex < chunks[i + 1].startIndex
                   /\ chunks[i + 1].startIndex <= chunks[i].endIndex
                   /\ chunks[i].endIndex <= chunks[i + 1].endIndex

\* A content of 1700 characters whose first chunk was cut after a full
\* stop in the second half of the first window.
C13_Witness ==
    /\ Chunked
    /\ Len(call.content) = MaxContent
    /\ call.chunks[1].endIndex < 800
    /\ Len(call.chunks) >= 3

\* The window-relative index of the last full stop or newline among the 800
\* characters from startIndex on, -1 when there is none.
LastBreak(content, startIndex) ==
    LET breaks == {i \in 0..799 : content[startIndex + i + 1] \in {46, 10}}
    IN  IF breaks = {} THEN 0 - 1
        ELSE CHOOSE i \in breaks : \A j \in breaks : j <= i

\* C14: a chunk whose window of 800 characters ends before the end of the
\* content, wherever the window starts, and whose last full stop or
\* newline lies in the second half of the window, ends just after that
\* character.
C14_CutAtLastBreak ==
    Chunked =>
        \A i \in 1..Len(call.chunks) :
            LET startIndex == call.chunks[i].startIndex
            IN  (/\ startIndex + 800 < Len(call.content)
                 /\ LastBreak(call.content, startIndex) > 400)
                => call.chunks[i].endIndex =
                       startIndex + LastBreak(call.content, startIndex) + 1

\* The documents of the list handed to run k, none of them null, that
\* processDocuments has got to.
ListOfDocuments(k) ==
    /\ inits[k].st /= "free"
    /\ \A i \in 1..Len(inits[k].docs) : ~inits[k].docs[i].isNull

\* C15: processDocuments on a list of documents never fails as a whole:
\* whatever embedding calls fail, it goes on to the end of the list, and
\* what it returns are the documents whose processing succeeded, in the
\* order of the list.
C15_PartialFailure ==
    \A k \in InitIds :
        ListOfDocuments(k) =>
            LET run == inits[k]
                Ok(i) == run.outcomes[i]
                done == SelectSeq([i \in 1..Len(run.outcomes) |-> i], Ok)
            IN  /\ run.st \notin {"failed", "thrown"}
                /\ Len(run.outcomes) = run.idx - 1
                /\ run.st \in {"adding", "ok"} => run.idx = Len(run.docs) + 1
                /\ Len(run.processed) = Len(done)
                /\ \A j \in 1..Len(done) :
                       /\ run.processed[j].id = run.docs[done[j]].id
                       /\ run.processed[j].content = run.docs[done[j]].content
                       /\ run.processed[j].title = run.docs[done[j]].title

\* A list of four documents was gone through to its end: one of them
\* failed and a later one was returned.
C15_Witness ==
    \E k \in InitIds :
        /\ ListOfDocuments(k)
        /\ inits[k].st = "ok"
        /\ Len(inits[k].docs) = 4
        /\ \E i, j \in 1..4 : i < j /\ ~inits[k].outcomes[i] /\ inits[k].outcomes[j]
        /\ Len(inits[k].processed) >= 2

\* C16: a document that validateDocument refuses is never in the vector
\* store, whether it was handed to initialize or to addDocument.
C16_StoredDocumentsValid ==
    \A i \in 1..Len(store) : validateDocument(store[i])

DocumentsOf(documents) == {documents[i] : i \in 1..Len(documents)}

IdsOf(documents) == {documents[i].id : i \in 1..Len(documents)}

\* C17: the store never holds two documents under one id; after an add it
\* holds the added document under its id and the others as they were, one
\* more document than before if the id was new and as many if it was not;
\* after a remove it holds the others as they were, and just what it held
\* if the id was unknown; after a clear it holds nothing.
C17_OneDocumentPerId ==
    /\ \A i, j \in 1..Len(store) : store[i].id = store[j].id => i = j
    /\ call.fn = "addDocument" =>
           /\ call.document \in DocumentsOf(store)
           /\ DocumentsOf(store) \ {call.document} =
                  {d \in DocumentsOf(call.before) : d.id /= call.document.id}
           /\ Len(store) = IF call.document.id \in IdsOf(call.before)
                           THEN Len(call.before) ELSE Len(call.before) + 1
    /\ call.fn = "removeDocument" =>
           /\ DocumentsOf(store) =
                  {d \in DocumentsOf(call.before) : d.id /= call.documentId}
           /\ call.documentId \notin IdsOf(call.before) => store = call.before
    /\ call.fn = "clear" => store = <<>>

\* A document was added under an id that held another document, next to a
\* document under another id, and the count stayed at two.
C17_Witness ==
    /\ call.fn = "addDocument"
    /\ call.document.id \in IdsOf(call.before)
    /\ call.document \notin DocumentsOf(call.before)
    /\ Len(call.before) = 2
    /\ Len(store) = 2

\* The documents and chunks a search scores: document i of the store is
\* <<i, 0>>, its chunk c is <<i, c>>.
Scored == {<<i, c>> : i \in 1..Len(store), c \in 0..2} \cap
          {x \in (1..Len(store)) \X (0..2) : x[2] <= Len(store[x[1]].chunks)}

ScoreOf(x) ==
    cosineSimilarity(call.queryEmbedding,
                     IF x[2] = 0 THEN store[x[1]].embedding
                     ELSE store[x[1]].chunks[x[2]].embedding)

\* C18: findSimilar(q, K) returns min(K, documents + chunks) results, each
\* the score of a different stored document or chunk, in non-increasing
\* order of similarity, and no document or chunk left out has a higher
\* similarity than one that was returned.
C18_TopKBySimilarity ==
    call.fn = "findSimilar" =>
        LET results == call.results
            returned == {x \in Scored :
                            \E r \in 1..Len(results) :
                                /\ results[r].docId = store[x[1]].id
                                /\ results[r].chunk = x[2]}
        IN  /\ Len(results) = IF Cardinality(Scored) < call.topK
                              THEN Cardinality(Scored) ELSE call.topK
            /\ Cardinality(returned) = Len(results)
            /\ \A r \in 1..Len(results) :
                   \E x \in Scored :
                       /\ results[r].docId = store[x[1]].id
                       /\ results[r].chunk = x[2]
                       /\ results[r].similarity = ScoreOf(x)
            /\ \A r \in 1..(Len(results) - 1) :
                   results[r].similarity >= results[r + 1].similarity
            /\ \A x \in Scored \ returned :
                   \A r \in 1..Len(results) : ScoreOf(x) <= results[r].similarity

\* Two of five scores were returned, the higher first, neither of them the
\* first document's, and a lower score was left out.
C18_Witness ==
    /\ call.fn = "findSimilar"
    /\ call.topK = 2
    /\ Cardinality(Scored) = 5
    /\ Len(call.results) = 2
    /\ call.results[1].similarity > call.results[2].similarity
    /\ \A r \in 1..2 : ~(call.results[r].docId = store[1].id /\ call.results[r].chunk = 0)
    /\ \E x \in Scored : ScoreOf(x) < call.results[2].similarity

AddSucceeded == \E q \in Procs : procs[q].op = "add" /\ procs[q].result = "ok"

\* C19: an addDocument that returns normally leaves the service ready, and
\* while initialize has never been called a query() called after it is not
\* refused as not initialized; the step in which an addDocument fails in
\* the processing of its document ends it with the error and changes
\* neither the readiness of the service nor the store.
C19_AddDocumentMakesReady ==
    [][\A p \in Procs :
          /\ (procs[p].pc = "add_stored" /\ procs'[p].pc = "done")
             => procs'[p].result = "ok" /\ isInitialized'
          /\ (procs[p].pc = "add_process" /\ procs'[p].pc = "done")
             => /\ procs'[p].result = "err"
                /\ store' = store
                /\ isInitialized' = isInitialized
          /\ (/\ initCalls' = 0
              /\ AddSucceeded
              /\ procs[p].pc = "idle"
              /\ procs'[p].op = "query")
             => procs'[p].qstatus /= "notinit"]_vars

\* Initialize was never called, an addDocument has returned normally, and
\* a query has been answered.
C19_Witness ==
    /\ initCalls = 0
    /\ AddSucceeded
    /\ \E p \in Procs :
           /\ procs[p].op = "query" /\ procs[p].pc = "done"
           /\ procs[p].result = "ok"

\* A load has failed, the caller that started it is past its finally
\* block, and no other load is in flight.
FailedLoadCleared ==
    /\ \E k \in InitIds :
           /\ inits[k].prom = "rejected"
           /\ \E q \in Procs : /\ procs[q].await = k
                               /\ procs[q].owner
                               /\ procs[q].pc \in {"load_ret", "done"}
    /\ \A j \in InitIds : inits[j].prom /= "pending"

\* C20: the step in which a load fails leaves isLoaded false, and isLoaded
\* is never true unless a load succeeded; every caller awaiting the failed
\* load gets the failure, and the one that started it clears the loading
\* flag and the shared promise; a loadOnboardingDocumentation called after
\* that, with the corpus still not loaded, starts a new initialize and
\* awaits it.
C20_FailedLoadIsRetried ==
    [][/\ \A k \in InitIds :
              (inits[k].prom = "pending" /\ inits'[k].prom = "rejected") => ~isLoaded'
       /\ isLoaded' => \E k \in InitIds : inits'[k].prom = "resolved"
       /\ \A p \in Procs :
              /\ (/\ procs[p].pc = "load_wait"
                  /\ procs'[p].pc = "load_ret"
                  /\ inits[procs[p].await].prom = "rejected")
                 => /\ procs'[p].lres = "err"
                    /\ procs[p].owner => ~isLoading' /\ loadingPromise' = 0
              /\ (/\ FailedLoadCleared
                  /\ ~isLoaded
                  /\ procs[p].pc = "idle"
                  /\ procs'[p].op = "load")
                 => /\ initCalls' = initCalls + 1
                    /\ inits'[initCalls'].viaLoader
                    /\ inits'[initCalls'].prom = "pending"
                    /\ procs'[p].pc = "load_wait"
                    /\ procs'[p].await = initCalls'
                    /\ procs'[p].owner]_vars

\* The first load failed and its caller got the failure; a later caller
\* started the second initialize.
C20_Witness ==
    /\ inits[1].prom = "rejected"
    /\ initCalls = 2
    /\ \E p, q \in Procs :
           /\ procs[p].op = "load" /\ procs[p].pc = "done" /\ procs[p].owner
           /\ procs[p].await = 1 /\ procs[p].result = "err"
           /\ procs[q].op = "load" /\ procs[q].owner /\ procs[q].await = 2

\* The vectors that calls of generateEmbeddings(text) which have returned
\* normally have returned.
Returned(text) ==
    {procs[q].embedding : q \in {r \in DOMAIN procs :
                                    /\ procs[r].op = "embed"
                                    /\ procs[r].pc = "done"
                                    /\ procs[r].result = "ok"
                                    /\ procs[r].question = text}}

\* C21: a generateEmbeddings(text) that is called after a call with the
\* same text has returned normally returns at once, normally, the vector
\* that call returned, and does not call the upstream model; and the step
\* in which a call fails leaves the cache as it was.
C21_CachedAfterSuccess ==
    [][\A p \in DOMAIN procs :
          /\ (/\ procs[p].pc = "idle"
              /\ procs'[p].op = "embed"
              /\ Returned(procs'[p].question) /= {})
             => /\ procs'[p].pc = "done"
                /\ procs'[p].result = "ok"
                /\ procs'[p].embedCalls = 0
                /\ Returned(procs'[p].question) = {procs'[p].embedding}
          /\ (/\ procs[p].pc = "embed_wait"
              /\ procs'[p].result = "err")
             => embeddingCache' = embeddingCache]_vars

\* C30: a generateEmbeddings(text) that returns normally returns the vector
\* the upstream model gives for that text.
C30_VectorOfItsText ==
    \A p \in DOMAIN procs :
        (procs[p].op = "embed" /\ procs[p].pc = "done" /\ procs[p].result = "ok")
        => procs[p].embedding = embeddingModel[procs[p].question]

\* C22: in every session each message's timestamp is later than the
\* timestamp of the message before it.
C22_StrictlyChronological ==
    \A s \in DOMAIN chatSessions :
        \A i \in 1..(Len(chatSessions[s].messages) - 1) :
            chatSessions[s].messages[i].timestamp
                < chatSessions[s].messages[i + 1].timestamp

\* createDocumentChunks has returned the chunks of a content.
ChunksMade == call.fn = "createDocumentChunks"

StartsIncrease ==
    \A i \in 1..(Len(call.chunks) - 1) :
        call.chunks[i].startIndex + 1 <= call.chunks[i + 1].startIndex

\* C23, as stated: createDocumentChunks returns for every content; each
\* chunk starts at least 1 after the chunk before it, and there are never
\* more chunks than the content has characters.
C23_ChunksBoundedByLength ==
    ChunksMade => StartsIncrease /\ Len(call.chunks) <= Len(call.content)

\* C23, amended: createDocumentChunks returns for every content; each chunk
\* starts at least 1 after the chunk before it, and there are never more
\* chunks than the content has characters, but for the empty content, which
\* makes one chunk.
C23_ChunksBoundedByLengthOrOne ==
    ChunksMade =>
        /\ StartsIncrease
        /\ Len(call.chunks) <= IF Len(call.content) = 0 THEN 1 ELSE Len(call.content)

\* A content longer than chunkSize in which a window started just 1 after
\* the window before it.
C23_Witness ==
    /\ ChunksMade
    /\ Len(call.content) > chunkSize
    /\ \E i \in 1..(Len(call.chunks) - 1) :
           call.chunks[i + 1].startIndex = call.chunks[i].startIndex + 1

\* C26: of the chunks of a document longer than chunkSize exactly one ends
\* where the content ends, and no chunk's span lies inside the span of a
\* chunk before it.
C26_OneChunkReachesEnd ==
    Chunked =>
        /\ Cardinality({i \in 1..Len(call.chunks) :
                           call.chunks[i].endIndex = Len(call.content)}) = 1
        /\ \A i, j \in 1..Len(call.chunks) :
               i < j => ~(/\ call.chunks[i].startIndex <= call.chunks[j].startIndex
                          /\ call.chunks[j].endIndex <= call.chunks[i].endIndex)

\* C24: the confidence of a relevant source together with a second source
\* that is at least as similar is not lower than the confidence of the
\* first source alone.
C24_SecondSourceNeverLowers ==
    call.fn = "calculateConfidence" => call.together >= call.alone

\* The text holds [text](url): an opening bracket, one character or more,
\* none of them a closing bracket, then "](", one character or more, none
\* of them a closing parenthesis, and a closing parenthesis.
HasLink(text) ==
    \E i, j, k \in 1..Len(text) :
        /\ text[i] = 91
        /\ j > i + 1 /\ text[j] = 93
        /\ \A x \in (i + 1)..(j - 1) : text[x] /= 93
        /\ j + 1 <= Len(text) /\ text[j + 1] = 40
        /\ k > j + 2 /\ text[k] = 41
        /\ \A x \in (j + 2)..(k - 1) : text[x] /= 41

Sanitized(text) ==
    /\ \A i \in 1..Len(text) : text[i] \notin {42, 35, 96}
    /\ ~HasLink(text)

\* C25: the answer formatResponseForFrontend makes of a raw output, and the
\* one formatChatResponse makes of it, hold no '*', no '#', no '`' and no
\* [text](url).
C25_AnswerIsSanitized ==
    call.fn = "format" => Sanitized(call.answer) /\ Sanitized(call.chat)

\* Run k of initialize has cleared the store and has not yet put the last
\* of its processed documents into it.
Repopulating(k) ==
    \/ inits[k].st \in {"clearing", "processing"}
    \/ inits[k].st = "adding" /\ inits[k].aidx <= Len(inits[k].processed)

\* C27: no query searches the store while a run of initialize that was
\* called on a ready service is between its clear and its last
\* addDocument: the step in which a query calls findSimilar is never taken
\* in such a state.
C27_QuerySeesWholeCorpus ==
    [][\A p \in Procs :
          (procs[p].simCalls = 0 /\ procs'[p].simCalls = 1)
          => ~\E k \in InitIds : inits[k].wasReady /\ Repopulating(k)]_vars

\* The chat requests on session s came one after the other and all of them
\* have been answered.
SequentialAndAnswered(s) ==
    \A p \in Procs :
        (procs[p].op = "chat" /\ procs[p].sid = s)
        => procs[p].alone /\ procs[p].pc = "done"

\* C28: after chat requests on a session that came one after the other,
\* whether they were answered with 200 or with 500, the session's messages
\* are user, assistant, user, assistant and so on, an even number of them.
C28_HistoryAlternates ==
    \A s \in DOMAIN chatSessions :
        SequentialAndAnswered(s) =>
            LET m == chatSessions[s].messages
            IN  /\ Len(m) % 2 = 0
                /\ \A i \in 1..Len(m) :
                       m[i].sender = IF i % 2 = 1 THEN "user" ELSE "assistant"

\* The embedding calls of createDocumentChunks that wait for the upstream
\* model.
InFlight ==
    IF call.fn = "createDocumentChunks"
    THEN {j \in 1..Len(call.promises) : call.promises[j].st = "pending"}
    ELSE {}

\* C29: at no time do more than two of a document's chunk-embedding calls
\* wait for the upstream model, and none of them belongs to a batch after
\* the one that is awaited.
C29_TwoCallsInFlight ==
    /\ Cardinality(InFlight) <= batchSize
    /\ \A j \in InFlight : j <= call.i + batchSize

====
